---- MODULE Spec2Model ----
(***************************************************************************)
(* LexNormAI: the content-mapping workflow.                                *)
(*                                                                         *)
(* The client pages (mapping, content, upload, settings) are modelled from *)
(* their React sources.  The HTTP backend (content store, standards        *)
(* catalog, mapping service) is not part of the source tree; it is         *)
(* modelled from the written specification, sections 3 and 4.2, and so is  *)
(* the catalog importer, from section 4.1.  The export handlers of the     *)
(* pages are modelled from their sources.                                  *)
(*                                                                         *)
(* Strings whose contents matter (ids rendered to text, job roles, CSV     *)
(* cells, titles) are sequences of one-character strings.                  *)
(***************************************************************************)
EXTENDS Integers, Sequences, FiniteSets, Bags, TLC

VARIABLES
  \* ---- backend (relational database) ----
  dbContent,              \* content id -> [exists, summary]; summary 0 = null/empty, n = n-th generated text
  catalog,                \* set of StandardRecord
  results,                \* sequence of persisted MappingResult rows
  \* ---- a direct API client (curl, /docs) ----
  apiReq,                 \* its map-content request
  \* ---- mapping page ----
  preselectedContentId,   \* searchParams.get('content')
  contents,               \* contents with summary, as loaded
  jobRoles,               \* job roles, as loaded
  selectedContentId,
  selectedJobRoleFilter,
  isMapping,
  mappingResults,
  mappingError,
  isLoading,
  loads,                  \* loadData calls in flight, each named by the preselectedContentId of its closure
  mapReq,                 \* the map-content request of handleMapping
  everListed,             \* history: ids that were in some loaded `contents`
  \* ---- content page (shares contents, isLoading, mappingResults) ----
  selectedContent,        \* the CourseContent object given to the details dialog
  isGeneratingSummary,    \* a content id, 0 for null
  loadingMappingResults,  \* the content ids whose flag is true
  dialogOpen,             \* the content id whose details dialog is open, 0 for none
  \* ---- upload page ----
  formData,               \* the form of the upload page, or of the settings page
  isUploading,
  uploadSuccess,
  uploadError,
  previewContent,
  \* ---- settings page (shares isLoading, formData) ----
  dbSettings,             \* backend: the stored settings profiles
  settings,               \* settings, as loaded (settings page, mapping page)
  isCreating,
  editingId,              \* a setting id, 0 for null
  \* ---- all pages ----
  page,                   \* the page that is mounted
  tasks,                  \* handler calls of the content, upload and settings pages in flight
  \* ---- client-side export ----
  download,               \* the artifact the last export handed to the browser
  exportData,             \* the mapping result and the content an export works on
  \* ---- catalog importer (scripts/import_standards.py) ----
  importRun               \* the import in progress or just ended

backendVars == <<dbContent, catalog, results>>
mappingPageVars == <<preselectedContentId, contents, settings, jobRoles, selectedContentId,
                     selectedJobRoleFilter, isMapping, mappingResults, mappingError,
                     isLoading, loads, mapReq, everListed>>
mappingOnlyVars == <<preselectedContentId, jobRoles, selectedContentId, selectedJobRoleFilter,
                     isMapping, mappingError, loads, mapReq, everListed>>
contentOnlyVars == <<selectedContent, isGeneratingSummary, loadingMappingResults, dialogOpen>>
uploadOnlyVars == <<isUploading, uploadSuccess, uploadError, previewContent>>
settingsOnlyVars == <<dbSettings, isCreating, editingId>>
\* what the mapping page and the mapping service leave alone
toolVars == <<download, importRun, exportData>>
otherPagesVars == <<contentOnlyVars, uploadOnlyVars, settingsOnlyVars, formData, tasks, page,
                    toolVars>>
vars == <<backendVars, apiReq, mappingPageVars, otherPagesVars>>

---------------------------------------------------------------------------
(* Bounds *)

\* MappingResult rows persisted for the direct API client
MaxResults == 2

\* MappingResult rows persisted for the mapping page
MaxMappingRuns == 1

\* handler calls of a content, upload or settings page in flight at once
MaxTasks == 2

\* data rows of an imported CSV file
MaxRows == 3

\* MappedStandardDetail entries of an exported result
MaxDetails == 4

\* characters of the model's short texts that fit the 160 units of a PDF line
LineChars == 2

---------------------------------------------------------------------------
(* Values *)

ContentIds == {1, 2}

\* null of a string-valued (sequence-valued) state
Null == <<"<null>">>
\* null of mappingResults
NullResult == [null |-> TRUE]
\* null of mappingError
NoError == "<null>"

EmptyString == <<>>

Digit == <<"0", "1", "2", "3", "4", "5", "6", "7", "8", "9">>

DigitValue(ch) == (CHOOSE i \in 1..10 : Digit[i] = ch) - 1

IsDigit(ch) == \E i \in 1..10 : Digit[i] = ch

\* Number.prototype.toString for the ids of the model (one decimal digit)
IdToString(n) == <<Digit[n + 1]>>

RECURSIVE ParseDigits(_, _)
ParseDigits(s, acc) ==
  IF s = <<>> \/ ~IsDigit(Head(s)) THEN acc
  ELSE ParseDigits(Tail(s), acc * 10 + DigitValue(Head(s)))

\* parseInt: the value of the leading decimal digits; NaN (here -1) when there are none
ParseInt(s) == IF s = <<>> \/ ~IsDigit(Head(s)) THEN -1 ELSE ParseDigits(s, 0)

\* job roles of the catalogs
RoleDev == <<"D", "e", "v">>
RoleQaDev == <<"Q", "a", ",", "D", "e", "v">>
RoleOps == <<"O", "p", "s">>

\* the 'all' item of the job-role select
All == <<"a", "l", "l">>

LowerChar(ch) ==
  CASE ch = "D" -> "d"
    [] ch = "Q" -> "q"
    [] ch = "O" -> "o"
    [] OTHER -> ch

Lower(s) == [i \in 1..Len(s) |-> LowerChar(s[i])]

\* case-insensitive substring test
ContainsIgnoreCase(hay, needle) ==
  \E i \in 1..(Len(hay) - Len(needle) + 1) :
    SubSeq(Lower(hay), i, i + Len(needle) - 1) = Lower(needle)

Std(role, nos, pc) == [job_role |-> role, nos_code |-> nos, pc_code |-> pc]

CatalogA == {Std(RoleDev, "N1", "PC1"), Std(RoleQaDev, "N2", "PC1"), Std(RoleOps, "N3", "PC1")}
CatalogB == {Std(RoleOps, "N3", "PC1"), Std(RoleOps, "N3", "PC2")}
Catalogs == {CatalogA, CatalogB}

\* what the LLM may answer: a failure (timeout, error, malformed output), or a list
\* of (standard_code, criterion_code, confidence) entries, some of them absent from
\* the catalog
LLMFailure == <<[failure |-> TRUE]>>
Entry(nos, pc, score) == [nos_code |-> nos, pc_code |-> pc, confidence_score |-> score]
LLMOutputs == {
  <<Entry("N1", "PC1", 90), Entry("N1", "PC9", 80)>>,
  <<Entry("N9", "PC1", 70), Entry("N3", "PC1", 60), Entry("N2", "PC1", 50)>>
}
ApiLLMOutputs == LLMOutputs \cup {<<>>, <<Entry("N3", "PC2", 40)>>}

\* job_role_filter values a request may carry; Null = filter omitted
NoMatchFilter == <<"x">>
ApiFilters == {Null, <<"d", "e", "v">>, NoMatchFilter}

\* values of the ?content= query parameter at mount
PreselectInputs == {Null, <<"1">>, <<"2">>, <<"0", "2">>}

NoRequest == [state |-> "none"]
\* null of selectedContent and of uploadSuccess
NullContent == [null |-> TRUE]
\* formData of a page that has no form
NoForm == [none |-> TRUE]

---------------------------------------------------------------------------
(* Backend: content store, catalog, mapping service (specification 3, 4.2) *)

\* content_id resolves to a CourseContent with a non-empty summary
HasSummary(content_id) ==
  /\ content_id \in ContentIds
  /\ dbContent[content_id].exists
  /\ dbContent[content_id].summary # 0

\* GET /content: the stored contents
ContentGetAll == {[id |-> c, summary |-> dbContent[c].summary] : c \in {x \in ContentIds : dbContent[x].exists}}

\* GET settings: the stored settings profiles
SettingsGetAll == dbSettings

\* GET job roles of the catalog
JobRolesGetAll == {s.job_role : s \in catalog}

\* candidate selection: with a filter, the catalog restricted to the records whose
\* job_role contains it, case-insensitively; without, the full catalog
Candidates(job_role_filter) ==
  IF job_role_filter = Null THEN catalog
  ELSE {s \in catalog : ContainsIgnoreCase(s.job_role, job_role_filter)}

MatchesEntry(s, e) == s.nos_code = e.nos_code /\ s.pc_code = e.pc_code

\* ParseResponse without the guard: every entry of the answer is kept
ParseResponseUnchecked(llm, cands) ==
  [i \in 1..Len(llm) |->
     [standard |-> IF \E s \in cands : MatchesEntry(s, llm[i])
                   THEN CHOOSE s \in cands : MatchesEntry(s, llm[i])
                   ELSE Std(EmptyString, llm[i].nos_code, llm[i].pc_code),
      confidence_score |-> llm[i].confidence_score]]

\* response parsing: an entry that matches no real StandardRecord is dropped.
\* The records an entry is matched back to are the candidates, the records the
\* prompt embeds: the end-to-end scenario of section 8 expects every mapped
\* standard to satisfy the filter whatever the LLM answers.
ParseResponse(llm, cands) ==
  LET Real(e) == \E s \in cands : MatchesEntry(s, e)
      kept == SelectSeq(llm, Real)
  IN [i \in 1..Len(kept) |->
        [standard |-> CHOOSE s \in cands : MatchesEntry(s, kept[i]),
         confidence_score |-> kept[i].confidence_score]]

NewResult(content_id, job_role_filter, details) ==
  [id |-> Len(results) + 1,
   content_id |-> content_id,
   job_role_filter |-> job_role_filter,
   mapped_standards |-> details,
   summary_used |-> dbContent[content_id].summary]

\* Persist as an upsert: the content's earlier row, if any, is replaced
PersistUpsert(row) ==
  IF \E i \in 1..Len(results) : results[i].content_id = row.content_id
  THEN [kind |-> "ok",
        results |-> [i \in 1..Len(results) |->
                       IF results[i].content_id = row.content_id THEN row ELSE results[i]],
        data |-> row]
  ELSE [kind |-> "ok", results |-> Append(results, row), data |-> row]

\* a new row is always created on success, never updated
Persist(row) == [kind |-> "ok", results |-> Append(results, row), data |-> row]

Reject(kind) == [kind |-> kind, results |-> results]

\* MapContent without its precondition
MapContentNoPrecondition(content_id, job_role_filter, llm) ==
  LET cands == Candidates(job_role_filter) IN
  IF cands = {} THEN Persist(NewResult(content_id, job_role_filter, <<>>))
  ELSE IF llm = LLMFailure THEN Reject("mapping_error")
  ELSE Persist(NewResult(content_id, job_role_filter, ParseResponse(llm, cands)))

\* MapContent failing when no candidate is left
MapContentFailsOnEmpty(content_id, job_role_filter, llm) ==
  IF ~HasSummary(content_id) THEN Reject("missing_summary")
  ELSE LET cands == Candidates(job_role_filter) IN
       IF cands = {} \/ llm = LLMFailure THEN Reject("mapping_error")
       ELSE Persist(NewResult(content_id, job_role_filter, ParseResponse(llm, cands)))

\* mapContent(content_id, job_role_filter) with the LLM answering `llm`:
\* the outcome, the table afterwards and, on success, the response body
MapContent(content_id, job_role_filter, llm) ==
  IF ~HasSummary(content_id) THEN Reject("missing_summary")
  ELSE LET cands == Candidates(job_role_filter) IN
       IF cands = {} THEN Persist(NewResult(content_id, job_role_filter, <<>>))
       ELSE IF llm = LLMFailure THEN Reject("mapping_error")
       ELSE Persist(NewResult(content_id, job_role_filter, ParseResponse(llm, cands)))

\* the request `req` once the service has handled it
Answered(req, resp) ==
  IF resp.kind = "ok"
  THEN [state |-> "ok", content_id |-> req.content_id, job_role_filter |-> req.job_role_filter,
        kind |-> resp.kind, data |-> resp.data]
  ELSE [state |-> "err", content_id |-> req.content_id, job_role_filter |-> req.job_role_filter,
        kind |-> resp.kind]

\* another client generates the summary of a content (content page in another tab)
EnvGenerateSummary(c) ==
  /\ dbContent[c].exists
  /\ dbContent[c].summary = 0
  /\ dbContent' = [dbContent EXCEPT ![c].summary = 1]
  /\ UNCHANGED <<catalog, results>>

\* another client deletes a content
EnvDeleteContent(c) ==
  /\ dbContent[c].exists
  /\ dbContent' = [dbContent EXCEPT ![c].exists = FALSE]
  /\ UNCHANGED <<catalog, results>>

\* catalog import: the table is replaced wholesale
ImportCatalog(cat) ==
  /\ cat # catalog
  /\ catalog' = cat
  /\ UNCHANGED <<dbContent, results>>

---------------------------------------------------------------------------
(* A direct API client *)

ApiSend(c, f) ==
  /\ apiReq.state # "sent"
  /\ apiReq' = [state |-> "sent", content_id |-> c, job_role_filter |-> f]
  /\ UNCHANGED backendVars

ServeApi(llm) ==
  /\ apiReq.state = "sent"
  /\ LET resp == MapContent(apiReq.content_id, apiReq.job_role_filter, llm) IN
     /\ resp.kind = "ok" => Len(results) < MaxResults
     /\ results' = resp.results
     /\ apiReq' = Answered(apiReq, resp)
  /\ UNCHANGED <<dbContent, catalog>>

InitBackend ==
  /\ dbContent = [c \in ContentIds |-> [exists |-> TRUE, summary |-> IF c = 1 THEN 0 ELSE 1]]
  /\ catalog = CatalogA
  /\ results = <<>>

InitMappingPageIdle ==
  /\ preselectedContentId = Null
  /\ jobRoles = {}
  /\ selectedContentId = EmptyString
  /\ selectedJobRoleFilter = All
  /\ isMapping = FALSE
  /\ mappingError = NoError
  /\ loads = {}
  /\ mapReq = NoRequest
  /\ everListed = {}

\* the state of the pages that are not mounted
InitContentPageIdle ==
  /\ selectedContent = NullContent
  /\ isGeneratingSummary = 0
  /\ loadingMappingResults = {}
  /\ dialogOpen = 0

InitUploadPageIdle ==
  /\ isUploading = FALSE
  /\ uploadSuccess = NullContent
  /\ uploadError = NoError
  /\ previewContent = ""

InitSettingsPageIdle ==
  /\ dbSettings = {}
  /\ settings = {}
  /\ isCreating = FALSE
  /\ editingId = 0

\* nothing exported, no import run
NoDownload == [none |-> TRUE]
NoImport == [phase |-> "idle"]
NoExportData == [none |-> TRUE]
InitToolsIdle ==
  /\ download = NoDownload
  /\ importRun = NoImport
  /\ exportData = NoExportData

\* no handler call in flight
NoTasks == EmptyBag

InitOtherPagesIdle ==
  /\ InitContentPageIdle
  /\ InitUploadPageIdle
  /\ InitSettingsPageIdle
  /\ InitToolsIdle
  /\ formData = NoForm
  /\ tasks = NoTasks

InitApi ==
  /\ InitBackend
  /\ apiReq = NoRequest
  /\ InitMappingPageIdle
  /\ contents = {}
  /\ isLoading = FALSE
  /\ mappingResults = NullResult
  /\ InitOtherPagesIdle
  /\ page = "none"

NextApi ==
  \/ \E c \in ContentIds, f \in ApiFilters :
       ApiSend(c, f) /\ UNCHANGED <<mappingPageVars, otherPagesVars>>
  \/ \E llm \in ApiLLMOutputs \cup {LLMFailure} :
       ServeApi(llm) /\ UNCHANGED <<mappingPageVars, otherPagesVars>>
  \/ \E c \in ContentIds :
       EnvGenerateSummary(c) /\ UNCHANGED <<apiReq, mappingPageVars, otherPagesVars>>
  \/ \E cat \in Catalogs :
       ImportCatalog(cat) /\ UNCHANGED <<apiReq, mappingPageVars, otherPagesVars>>

\* the mapping service used through its API
SpecApi == InitApi /\ [][NextApi]_vars

---------------------------------------------------------------------------
(* Mapping page *)

\* Not modelled: selectedSettingsId (settings_id of the request) and the
\* rendering of the result panel.

\* loadData: contentsResponse.data.filter(c => c.summary)
ContentsWithSummary(data) == {c \in data : c.summary # 0}

\* PreselectFound without the lookup in the filtered list
PreselectGiven(pre, contentsWithSummary) ==
  /\ pre # Null
  /\ pre # EmptyString

\* loadData: preselectedContentId && contentsWithSummary.find(c => c.id.toString() === preselectedContentId)
PreselectFound(pre, contentsWithSummary) ==
  /\ pre # Null
  /\ pre # EmptyString
  /\ \E c \in contentsWithSummary : IdToString(c.id) = pre

\* JobRoleFilterParam without the test for 'all'
JobRoleFilterParamAsSelected(selected) ==
  IF selected # EmptyString THEN selected ELSE Null

\* handleMapping: selectedJobRoleFilter && selectedJobRoleFilter !== 'all' ? selectedJobRoleFilter : undefined
JobRoleFilterParam(selected) ==
  IF selected # EmptyString /\ selected # All THEN selected ELSE Null

\* handleMapping: the message its catch clause sets, whatever the rejection
MappingCatchMessage(kind) == "Error mapping content to standards"

\* the page body is rendered (not the loading spinner)
Rendered == page = "mapping" /\ ~isLoading

\* loadData, from its call to the await: the three requests go out together
LoadDataStart(pre) ==
  /\ isLoading' = TRUE
  /\ loads' = loads \cup {pre}

\* the in-app link to /mapping drops the ?content= parameter: loadData is
\* re-created and the effect runs it again, the page's state kept
NavLinkMapping ==
  /\ page = "mapping"
  /\ preselectedContentId # Null
  /\ preselectedContentId' = Null
  /\ LoadDataStart(Null)
  /\ UNCHANGED <<contents, settings, jobRoles, selectedContentId, selectedJobRoleFilter, isMapping,
                 mappingResults, mappingError, mapReq, everListed>>

\* loadData after the await, all three requests fulfilled
LoadDataResolve(pre) ==
  /\ pre \in loads
  /\ LET contentsWithSummary == ContentsWithSummary(ContentGetAll) IN
     /\ contents' = contentsWithSummary
     /\ settings' = SettingsGetAll
     /\ jobRoles' = JobRolesGetAll
     /\ selectedContentId' =
          IF PreselectFound(pre, contentsWithSummary) THEN pre ELSE selectedContentId
     /\ everListed' = everListed \cup {c.id : c \in contentsWithSummary}
  /\ isLoading' = FALSE
  /\ loads' = loads \ {pre}
  /\ UNCHANGED <<preselectedContentId, selectedJobRoleFilter, isMapping, mappingResults,
                 mappingError, mapReq>>

\* LoadDataReject keeping the responses that did arrive (contents fulfilled,
\* another request rejected)
LoadDataRejectPartial(pre) ==
  /\ pre \in loads
  /\ contents' = ContentsWithSummary(ContentGetAll)
  /\ isLoading' = FALSE
  /\ loads' = loads \ {pre}
  /\ UNCHANGED <<preselectedContentId, settings, jobRoles, selectedContentId,
                 selectedJobRoleFilter, isMapping, mappingResults, mappingError, mapReq,
                 everListed>>

\* loadData after the await, one of the requests rejected: catch, finally
LoadDataReject(pre) ==
  /\ pre \in loads
  /\ isLoading' = FALSE
  /\ loads' = loads \ {pre}
  /\ UNCHANGED <<preselectedContentId, contents, settings, jobRoles, selectedContentId,
                 selectedJobRoleFilter, isMapping, mappingResults, mappingError, mapReq,
                 everListed>>

\* the content select: one of the listed contents
SelectContent(c) ==
  /\ Rendered
  /\ c \in contents
  /\ selectedContentId' = IdToString(c.id)
  /\ UNCHANGED <<preselectedContentId, contents, settings, jobRoles, selectedJobRoleFilter,
                 isMapping,
                 mappingResults, mappingError, isLoading, loads, mapReq, everListed>>

\* the job-role select ('all' or a listed role) and its Clear button
SelectJobRoleFilter(r) ==
  /\ Rendered
  /\ r \in jobRoles \cup {All}
  /\ selectedJobRoleFilter' = r
  /\ UNCHANGED <<preselectedContentId, contents, settings, jobRoles, selectedContentId, isMapping,
                 mappingResults, mappingError, isLoading, loads, mapReq, everListed>>

\* HandleMapping without setMappingResults(null)
HandleMappingKeepsResults ==
  /\ Rendered
  /\ ~isMapping
  /\ selectedContentId # EmptyString
  /\ isMapping' = TRUE
  /\ mappingError' = NoError
  /\ mapReq' = [state |-> "sent",
                content_id |-> ParseInt(selectedContentId),
                job_role_filter |-> JobRoleFilterParam(selectedJobRoleFilter)]
  /\ UNCHANGED <<preselectedContentId, contents, settings, jobRoles, selectedContentId,
                 selectedJobRoleFilter, mappingResults, isLoading, loads, everListed>>

\* HandleMapping from a Start button that is not disabled while isMapping
HandleMappingWhileMapping ==
  /\ Rendered
  /\ selectedContentId # EmptyString
  /\ isMapping' = TRUE
  /\ mappingError' = NoError
  /\ mappingResults' = NullResult
  /\ mapReq' = [state |-> "sent",
                content_id |-> ParseInt(selectedContentId),
                job_role_filter |-> JobRoleFilterParam(selectedJobRoleFilter)]
  /\ UNCHANGED <<preselectedContentId, contents, settings, jobRoles, selectedContentId,
                 selectedJobRoleFilter, isLoading, loads, everListed>>

\* handleMapping up to its await, from the Start AI Mapping button
\* (disabled={isMapping || !selectedContentId})
HandleMapping ==
  /\ Rendered
  /\ ~isMapping
  /\ selectedContentId # EmptyString
  /\ isMapping' = TRUE
  /\ mappingError' = NoError
  /\ mappingResults' = NullResult
  /\ mapReq' = [state |-> "sent",
                content_id |-> ParseInt(selectedContentId),
                job_role_filter |-> JobRoleFilterParam(selectedJobRoleFilter)]
  /\ UNCHANGED <<preselectedContentId, contents, settings, jobRoles, selectedContentId,
                 selectedJobRoleFilter, isLoading, loads, everListed>>

\* the mapping service handles the page's request
ServeMap(llm) ==
  /\ mapReq.state = "sent"
  /\ LET resp == MapContent(mapReq.content_id, mapReq.job_role_filter, llm) IN
     /\ resp.kind = "ok" => Len(results) < MaxMappingRuns
     /\ results' = resp.results
     /\ mapReq' = Answered(mapReq, resp)
  /\ UNCHANGED <<dbContent, catalog>>
  /\ UNCHANGED <<preselectedContentId, contents, settings, jobRoles, selectedContentId,
                 selectedJobRoleFilter, isMapping, mappingResults, mappingError, isLoading,
                 loads, everListed>>

\* handleMapping after the await, fulfilled: setMappingResults, finally
MapResolve ==
  /\ mapReq.state = "ok"
  /\ mappingResults' = mapReq.data
  /\ isMapping' = FALSE
  /\ mapReq' = NoRequest
  /\ UNCHANGED <<preselectedContentId, contents, settings, jobRoles, selectedContentId,
                 selectedJobRoleFilter, mappingError, isLoading, loads, everListed>>

\* MapReject sending the request again from its catch
MapRejectRetries ==
  /\ mapReq.state = "err"
  /\ mappingError' = MappingCatchMessage(mapReq.kind)
  /\ mapReq' = [state |-> "sent", content_id |-> mapReq.content_id,
                job_role_filter |-> mapReq.job_role_filter]
  /\ UNCHANGED <<preselectedContentId, contents, settings, jobRoles, selectedContentId,
                 selectedJobRoleFilter, isMapping, mappingResults, isLoading, loads, everListed>>

\* MapReject without the finally block
MapRejectNoFinally ==
  /\ mapReq.state = "err"
  /\ mappingError' = MappingCatchMessage(mapReq.kind)
  /\ mapReq' = NoRequest
  /\ UNCHANGED <<preselectedContentId, contents, settings, jobRoles, selectedContentId,
                 selectedJobRoleFilter, isMapping, mappingResults, isLoading, loads, everListed>>

\* handleMapping after the await, rejected: catch, finally
MapReject ==
  /\ mapReq.state = "err"
  /\ mappingError' = MappingCatchMessage(mapReq.kind)
  /\ isMapping' = FALSE
  /\ mapReq' = NoRequest
  /\ UNCHANGED <<preselectedContentId, contents, settings, jobRoles, selectedContentId,
                 selectedJobRoleFilter, mappingResults, isLoading, loads, everListed>>

\* the page mounted at /mapping or /mapping?content=..., its effect has called loadData
InitMapping ==
  /\ InitBackend
  /\ apiReq = NoRequest
  /\ preselectedContentId \in PreselectInputs
  /\ contents = {}
  /\ jobRoles = {}
  /\ selectedContentId = EmptyString
  /\ selectedJobRoleFilter = All
  /\ isMapping = FALSE
  /\ mappingResults = NullResult
  /\ mappingError = NoError
  /\ isLoading = TRUE
  /\ loads = {preselectedContentId}
  /\ mapReq = NoRequest
  /\ everListed = {}
  /\ InitOtherPagesIdle
  /\ page = "mapping"

NextMapping ==
  \/ NavLinkMapping /\ UNCHANGED <<backendVars, apiReq, otherPagesVars>>
  \/ \E pre \in PreselectInputs :
       LoadDataResolve(pre) /\ UNCHANGED <<backendVars, apiReq, otherPagesVars>>
  \/ \E pre \in PreselectInputs :
       LoadDataReject(pre) /\ UNCHANGED <<backendVars, apiReq, otherPagesVars>>
  \/ \E c \in contents :
       SelectContent(c) /\ UNCHANGED <<backendVars, apiReq, otherPagesVars>>
  \/ \E r \in jobRoles \cup {All} :
       SelectJobRoleFilter(r) /\ UNCHANGED <<backendVars, apiReq, otherPagesVars>>
  \/ HandleMapping /\ UNCHANGED <<backendVars, apiReq, otherPagesVars>>
  \/ \E llm \in LLMOutputs \cup {LLMFailure} :
       ServeMap(llm) /\ UNCHANGED <<apiReq, otherPagesVars>>
  \/ MapResolve /\ UNCHANGED <<backendVars, apiReq, otherPagesVars>>
  \/ MapReject /\ UNCHANGED <<backendVars, apiReq, otherPagesVars>>
  \/ \E c \in ContentIds :
       /\ page = "mapping"
       /\ EnvDeleteContent(c) /\ UNCHANGED <<apiReq, mappingPageVars, otherPagesVars>>

\* the mapping page against the backend, other clients changing the data meanwhile
SpecMapping == InitMapping /\ [][NextMapping]_vars

\* the page mounted while a settings profile is stored
InitMappingLoad ==
  /\ InitBackend
  /\ apiReq = NoRequest
  /\ preselectedContentId \in PreselectInputs
  /\ contents = {}
  /\ settings = {}
  /\ jobRoles = {}
  /\ selectedContentId = EmptyString
  /\ selectedJobRoleFilter = All
  /\ isMapping = FALSE
  /\ mappingResults = NullResult
  /\ mappingError = NoError
  /\ isLoading = TRUE
  /\ loads = {preselectedContentId}
  /\ mapReq = NoRequest
  /\ everListed = {}
  /\ InitContentPageIdle
  /\ InitUploadPageIdle
  /\ InitToolsIdle
  /\ dbSettings = {1}
  /\ isCreating = FALSE
  /\ editingId = 0
  /\ formData = NoForm
  /\ tasks = NoTasks
  /\ page = "mapping"

\* the mapping page loading contents, settings and job roles
SpecMappingLoad == InitMappingLoad /\ [][NextMapping]_vars

---------------------------------------------------------------------------
(* Handler calls in flight on the content, upload and settings pages *)

Task(handler, id, phase) == [handler |-> handler, content_id |-> id, phase |-> phase]

\* `tasks` is the bag of the handler calls in flight
HasFreeSlot == BagCardinality(tasks) < MaxTasks
Started(task) == tasks (+) SetToBag({task})
Ended(t) == tasks (-) SetToBag({t})
Replaced(t, task) == Ended(t) (+) SetToBag({task})
Moved(t, phase) == Replaced(t, [t EXCEPT !.phase = phase])
IsTask(t, handler, phase) == t.handler = handler /\ t.phase = phase

---------------------------------------------------------------------------
(* Backend: content store *)

\* POST /content/{id}/generate-summary: the summary field is set once
GenerateSummary(id) ==
  IF dbContent[id].summary = 0 THEN [dbContent EXCEPT ![id].summary = 1] ELSE dbContent

\* DELETE /content/{id}
DeleteContent(id) == [dbContent EXCEPT ![id].exists = FALSE]

\* GET /mapping/results?content_id=
ResultsGet(id) == SelectSeq(results, LAMBDA r : r.content_id = id)

---------------------------------------------------------------------------
(* Content page *)

\* the page body is rendered (not the loading spinner)
ContentRendered == page = "content" /\ ~isLoading
\* the table can be used: no details dialog (modal) is open over it
TableUsable == ContentRendered /\ dialogOpen = 0

contentFrame == <<catalog, results, apiReq, mappingOnlyVars, settings, uploadOnlyVars,
                  settingsOnlyVars,
                  formData, page,
                  toolVars>>

\* loadMappingResults up to its await
LoadMappingResultsStart(id) ==
  /\ HasFreeSlot
  /\ loadingMappingResults' = loadingMappingResults \cup {id}
  /\ tasks' = Started(Task("loadMappingResults", id, "loading"))

\* the View Details (eye) button of a row
ViewDetails(c) ==
  /\ TableUsable
  /\ c \in contents
  /\ selectedContent' = c
  /\ dialogOpen' = c.id
  /\ IF c.summary # 0 /\ c.id \notin DOMAIN mappingResults
     THEN LoadMappingResultsStart(c.id)
     ELSE UNCHANGED <<loadingMappingResults, tasks>>
  /\ UNCHANGED <<dbContent, contents, isLoading, mappingResults, isGeneratingSummary>>

\* the details dialog is closed by the user
CloseDialog ==
  /\ ContentRendered
  /\ dialogOpen # 0
  /\ dialogOpen' = 0
  /\ UNCHANGED <<dbContent, contents, isLoading, mappingResults, selectedContent,
                 isGeneratingSummary, loadingMappingResults, tasks>>

\* the Load Mapping Results (target) button of a row
LoadMappingResultsClick(c) ==
  /\ TableUsable
  /\ c \in contents
  /\ c.summary # 0
  /\ ~(c.id \in DOMAIN mappingResults /\ Len(mappingResults[c.id]) > 0)
  /\ c.id \notin loadingMappingResults
  /\ LoadMappingResultsStart(c.id)
  /\ UNCHANGED <<dbContent, contents, isLoading, mappingResults, selectedContent,
                 isGeneratingSummary, dialogOpen>>

\* LoadMappingResultsResolve spreading the maps of the render that made the
\* call (empty at mount) instead of the previous state
LoadMappingResultsResolveStale(t) ==
  /\ IsTask(t, "loadMappingResults", "loading")
  /\ LET id == t.content_id IN
     /\ mappingResults' = [x \in {id} |-> ResultsGet(id)]
     /\ loadingMappingResults' = {}
  /\ tasks' = Ended(t)
  /\ UNCHANGED <<dbContent, contents, isLoading, selectedContent, isGeneratingSummary, dialogOpen>>

\* loadMappingResults after the await, the request fulfilled
LoadMappingResultsResolve(t) ==
  /\ IsTask(t, "loadMappingResults", "loading")
  /\ LET id == t.content_id IN
     /\ mappingResults' = [x \in DOMAIN mappingResults \cup {id} |->
                             IF x = id THEN ResultsGet(id) ELSE mappingResults[x]]
     /\ loadingMappingResults' = loadingMappingResults \ {id}
  /\ tasks' = Ended(t)
  /\ UNCHANGED <<dbContent, contents, isLoading, selectedContent, isGeneratingSummary, dialogOpen>>

\* loadMappingResults after the await, the request failed
LoadMappingResultsReject(t) ==
  /\ IsTask(t, "loadMappingResults", "loading")
  /\ loadingMappingResults' = loadingMappingResults \ {t.content_id}
  /\ tasks' = Ended(t)
  /\ UNCHANGED <<dbContent, contents, isLoading, mappingResults, selectedContent,
                 isGeneratingSummary, dialogOpen>>

\* handleGenerateSummary up to its first await
HandleGenerateSummary(contentId) ==
  /\ HasFreeSlot
  /\ isGeneratingSummary' = contentId
  /\ tasks' = Started(Task("handleGenerateSummary", contentId, "sent"))
  /\ UNCHANGED <<dbContent, contents, isLoading, mappingResults, selectedContent,
                 loadingMappingResults, dialogOpen>>

\* the Generate Summary (zap) button of a row
GenerateSummaryRowClick(c) ==
  /\ TableUsable
  /\ c \in contents
  /\ c.summary = 0
  /\ isGeneratingSummary # c.id
  /\ HandleGenerateSummary(c.id)

\* the Generate Summary button of the details dialog
GenerateSummaryDialogClick ==
  /\ ContentRendered
  /\ dialogOpen # 0
  /\ selectedContent # NullContent
  /\ selectedContent.summary = 0
  /\ isGeneratingSummary # selectedContent.id
  /\ HandleGenerateSummary(selectedContent.id)

\* the backend answers a generate-summary request: done, or failed (no such
\* content, LLM failure)
ServeGenerateSummary(t, ok) ==
  /\ IsTask(t, "handleGenerateSummary", "sent")
  /\ LET id == t.content_id IN
     IF ok /\ dbContent[id].exists
     THEN dbContent' = GenerateSummary(id) /\ tasks' = Moved(t, "ok")
     ELSE dbContent' = dbContent /\ tasks' = Moved(t, "err")
  /\ UNCHANGED <<contents, isLoading, mappingResults, selectedContent, isGeneratingSummary,
                 loadingMappingResults, dialogOpen>>

\* loadContents up to its await; the spinner replaces the table and its dialogs
LoadContentsStart(t) ==
  /\ isLoading' = TRUE
  /\ dialogOpen' = 0
  /\ tasks' = Moved(t, "loading")

\* handleGenerateSummary after generateSummary is fulfilled: loadContents is called
GenerateSummaryResolve(t) ==
  /\ IsTask(t, "handleGenerateSummary", "ok")
  /\ LoadContentsStart(t)
  /\ UNCHANGED <<dbContent, contents, mappingResults, selectedContent, isGeneratingSummary,
                 loadingMappingResults>>

\* handleGenerateSummary after generateSummary is rejected: catch, finally
GenerateSummaryReject(t) ==
  /\ IsTask(t, "handleGenerateSummary", "err")
  /\ isGeneratingSummary' = 0
  /\ tasks' = Ended(t)
  /\ UNCHANGED <<dbContent, contents, isLoading, mappingResults, selectedContent,
                 loadingMappingResults, dialogOpen>>

\* the Delete (trash) button of a row, the confirm() accepted
HandleDeleteContent(c) ==
  /\ TableUsable
  /\ c \in contents
  /\ HasFreeSlot
  /\ tasks' = Started(Task("handleDeleteContent", c.id, "sent"))
  /\ UNCHANGED <<dbContent, contents, isLoading, mappingResults, selectedContent,
                 isGeneratingSummary, loadingMappingResults, dialogOpen>>

\* the backend answers a delete request
ServeDeleteContent(t, ok) ==
  /\ IsTask(t, "handleDeleteContent", "sent")
  /\ LET id == t.content_id IN
     IF ok /\ dbContent[id].exists
     THEN dbContent' = DeleteContent(id) /\ tasks' = Moved(t, "ok")
     ELSE dbContent' = dbContent /\ tasks' = Moved(t, "err")
  /\ UNCHANGED <<contents, isLoading, mappingResults, selectedContent, isGeneratingSummary,
                 loadingMappingResults, dialogOpen>>

\* handleDeleteContent after delete is fulfilled: loadContents is called
DeleteContentResolve(t) ==
  /\ IsTask(t, "handleDeleteContent", "ok")
  /\ LoadContentsStart(t)
  /\ UNCHANGED <<dbContent, contents, mappingResults, selectedContent, isGeneratingSummary,
                 loadingMappingResults>>

\* handleDeleteContent after delete is rejected: catch
DeleteContentReject(t) ==
  /\ IsTask(t, "handleDeleteContent", "err")
  /\ tasks' = Ended(t)
  /\ UNCHANGED <<dbContent, contents, isLoading, mappingResults, selectedContent,
                 isGeneratingSummary, loadingMappingResults, dialogOpen>>

ContentLoaders == {"loadContents", "handleGenerateSummary", "handleDeleteContent"}

\* what the caller of loadContents does once it returns: handleGenerateSummary's finally
AfterLoadContents(t) ==
  IF t.handler = "handleGenerateSummary" THEN 0 ELSE isGeneratingSummary

\* loadContents after its await, the request fulfilled; then back in its caller
LoadContentsResolve(t) ==
  /\ \E h \in ContentLoaders : IsTask(t, h, "loading")
  /\ contents' = ContentGetAll
  /\ isLoading' = FALSE
  /\ isGeneratingSummary' = AfterLoadContents(t)
  /\ tasks' = Ended(t)
  /\ UNCHANGED <<dbContent, mappingResults, selectedContent, loadingMappingResults, dialogOpen>>

\* loadContents after its await, the request failed; then back in its caller
LoadContentsReject(t) ==
  /\ \E h \in ContentLoaders : IsTask(t, h, "loading")
  /\ isLoading' = FALSE
  /\ isGeneratingSummary' = AfterLoadContents(t)
  /\ tasks' = Ended(t)
  /\ UNCHANGED <<dbContent, contents, mappingResults, selectedContent, loadingMappingResults,
                 dialogOpen>>

\* the content page mounted, its effect has called loadContents
InitContent ==
  /\ InitBackend
  /\ apiReq = NoRequest
  /\ InitMappingPageIdle
  /\ InitContentPageIdle
  /\ InitUploadPageIdle
  /\ InitSettingsPageIdle
  /\ InitToolsIdle
  /\ formData = NoForm
  /\ contents = {}
  /\ isLoading = TRUE
  /\ mappingResults = <<>>
  /\ tasks = SetToBag({Task("loadContents", 0, "loading")})
  /\ page = "content"

NextContent ==
  \/ \E c \in contents : ViewDetails(c) /\ UNCHANGED contentFrame
  \/ CloseDialog /\ UNCHANGED contentFrame
  \/ \E c \in contents : LoadMappingResultsClick(c) /\ UNCHANGED contentFrame
  \/ \E c \in contents : GenerateSummaryRowClick(c) /\ UNCHANGED contentFrame
  \/ GenerateSummaryDialogClick /\ UNCHANGED contentFrame
  \/ \E c \in contents : HandleDeleteContent(c) /\ UNCHANGED contentFrame
  \/ \E t \in BagToSet(tasks), ok \in BOOLEAN :
       ServeGenerateSummary(t, ok) /\ UNCHANGED contentFrame
  \/ \E t \in BagToSet(tasks), ok \in BOOLEAN :
       ServeDeleteContent(t, ok) /\ UNCHANGED contentFrame
  \/ \E t \in BagToSet(tasks) : GenerateSummaryResolve(t) /\ UNCHANGED contentFrame
  \/ \E t \in BagToSet(tasks) : GenerateSummaryReject(t) /\ UNCHANGED contentFrame
  \/ \E t \in BagToSet(tasks) : DeleteContentResolve(t) /\ UNCHANGED contentFrame
  \/ \E t \in BagToSet(tasks) : DeleteContentReject(t) /\ UNCHANGED contentFrame
  \/ \E t \in BagToSet(tasks) : LoadContentsResolve(t) /\ UNCHANGED contentFrame
  \/ \E t \in BagToSet(tasks) : LoadContentsReject(t) /\ UNCHANGED contentFrame
  \/ \E t \in BagToSet(tasks) : LoadMappingResultsResolve(t) /\ UNCHANGED contentFrame
  \/ \E t \in BagToSet(tasks) : LoadMappingResultsReject(t) /\ UNCHANGED contentFrame

\* the content page against the backend
SpecContent == InitContent /\ [][NextContent]_vars

\* the content page mounted over two stored contents, neither summarised yet
InitContentUnsummarised ==
  /\ dbContent = [c \in ContentIds |-> [exists |-> TRUE, summary |-> 0]]
  /\ catalog = CatalogA
  /\ results = <<>>
  /\ apiReq = NoRequest
  /\ InitMappingPageIdle
  /\ InitContentPageIdle
  /\ InitUploadPageIdle
  /\ InitSettingsPageIdle
  /\ InitToolsIdle
  /\ formData = NoForm
  /\ contents = {}
  /\ isLoading = TRUE
  /\ mappingResults = <<>>
  /\ tasks = SetToBag({Task("loadContents", 0, "loading")})
  /\ page = "content"

\* the content page when no content has a summary yet
SpecContentUnsummarised == InitContentUnsummarised /\ [][NextContent]_vars

\* the content page mounted over two summarised contents, each mapped once
InitContentMapped ==
  /\ dbContent = [c \in ContentIds |-> [exists |-> TRUE, summary |-> 1]]
  /\ catalog = CatalogA
  /\ results = [c \in 1..2 |-> [id |-> c, content_id |-> c, job_role_filter |-> Null,
                                 mapped_standards |-> <<>>, summary_used |-> 1]]
  /\ apiReq = NoRequest
  /\ InitMappingPageIdle
  /\ InitContentPageIdle
  /\ InitUploadPageIdle
  /\ InitSettingsPageIdle
  /\ InitToolsIdle
  /\ formData = NoForm
  /\ contents = {}
  /\ isLoading = TRUE
  /\ mappingResults = <<>>
  /\ tasks = SetToBag({Task("loadContents", 0, "loading")})
  /\ page = "content"

\* every content has its summary: no Generate Summary button is rendered
NextContentMapped ==
  \/ \E c \in contents : ViewDetails(c) /\ UNCHANGED contentFrame
  \/ CloseDialog /\ UNCHANGED contentFrame
  \/ \E c \in contents : LoadMappingResultsClick(c) /\ UNCHANGED contentFrame
  \/ \E c \in contents : HandleDeleteContent(c) /\ UNCHANGED contentFrame
  \/ \E t \in BagToSet(tasks), ok \in BOOLEAN :
       ServeDeleteContent(t, ok) /\ UNCHANGED contentFrame
  \/ \E t \in BagToSet(tasks) : DeleteContentResolve(t) /\ UNCHANGED contentFrame
  \/ \E t \in BagToSet(tasks) : DeleteContentReject(t) /\ UNCHANGED contentFrame
  \/ \E t \in BagToSet(tasks) : LoadContentsResolve(t) /\ UNCHANGED contentFrame
  \/ \E t \in BagToSet(tasks) : LoadContentsReject(t) /\ UNCHANGED contentFrame
  \/ \E t \in BagToSet(tasks) : LoadMappingResultsResolve(t) /\ UNCHANGED contentFrame
  \/ \E t \in BagToSet(tasks) : LoadMappingResultsReject(t) /\ UNCHANGED contentFrame

\* the content page when every content has stored mapping results
SpecContentMapped == InitContentMapped /\ [][NextContentMapped]_vars

---------------------------------------------------------------------------
(* Upload page *)

\* file.size limit of handleFileSelect: 10 * 1024 * 1024
MaxFileSize == 10485760
AllowedTypes == {"text/plain", "application/pdf", "text/markdown"}
NoFile == [none |-> TRUE]
File(size, type) == [size |-> size, type |-> type]
FileInputs == {File(sz, ty) : sz \in {MaxFileSize, MaxFileSize + 1},
                              ty \in {"text/plain", "application/pdf", "image/png"}}
TitleInputs == {EmptyString, <<" ">>, <<"T">>}
ContentInputs == {EmptyString, <<" ">>, <<"x">>}
EmptyForm == [title |-> EmptyString, content |-> EmptyString, file |-> NoFile]

\* String.prototype.trim
RECURSIVE TrimStart(_)
TrimStart(str) == IF str # <<>> /\ Head(str) = " " THEN TrimStart(Tail(str)) ELSE str
RECURSIVE TrimEnd(_)
TrimEnd(str) ==
  IF str # <<>> /\ str[Len(str)] = " " THEN TrimEnd(SubSeq(str, 1, Len(str) - 1)) ELSE str
Trim(str) == TrimEnd(TrimStart(str))

FileTooLarge == "File size must be less than 10MB"
FileTypeUnsupported == "Only text (.txt), PDF (.pdf), and Markdown (.md) files are supported"
TitleMissing == "Please provide a title for the content"
ContentMissing == "Please either upload a file or enter content manually"
UploadFailed == "Error uploading content"
PdfPreview == "PDF content will be extracted during upload processing."

uploadFrame == <<catalog, results, apiReq, mappingPageVars, contentOnlyVars, settingsOnlyVars,
                 page,
                 toolVars>>

\* onChange of the title input
SetTitle(t) ==
  /\ page = "upload"
  /\ t # formData.title
  /\ formData' = [formData EXCEPT !.title = t]
  /\ UNCHANGED <<dbContent, isUploading, uploadSuccess, uploadError, previewContent, tasks>>

\* onChange of the content textarea, which is disabled while a file is selected
SetContent(t) ==
  /\ page = "upload"
  /\ formData.file = NoFile
  /\ t # formData.content
  /\ formData' = [formData EXCEPT !.content = t]
  /\ UNCHANGED <<dbContent, isUploading, uploadSuccess, uploadError, previewContent, tasks>>

\* HandleFileSelect without the test of the size
HandleFileSelectAnySize(file, readOk) ==
  /\ page = "upload"
  /\ IF file.type \notin AllowedTypes
     THEN uploadError' = FileTypeUnsupported /\ UNCHANGED <<formData, previewContent>>
     ELSE /\ formData' = [formData EXCEPT !.file = file]
          /\ previewContent' = IF file.type \in {"text/plain", "text/markdown"}
                               THEN (IF readOk THEN "text" ELSE previewContent)
                               ELSE PdfPreview
          /\ UNCHANGED uploadError
  /\ UNCHANGED <<dbContent, isUploading, uploadSuccess, tasks>>

\* handleFileSelect, from the file input or a drop; readOk: file.text() is fulfilled
HandleFileSelect(file, readOk) ==
  /\ page = "upload"
  /\ IF file.size > MaxFileSize
     THEN uploadError' = FileTooLarge /\ UNCHANGED <<formData, previewContent>>
     ELSE IF file.type \notin AllowedTypes
     THEN uploadError' = FileTypeUnsupported /\ UNCHANGED <<formData, previewContent>>
     ELSE /\ formData' = [formData EXCEPT !.file = file]
          /\ previewContent' = IF file.type \in {"text/plain", "text/markdown"}
                               THEN (IF readOk THEN "text" ELSE previewContent)
                               ELSE PdfPreview
          /\ UNCHANGED uploadError
  /\ UNCHANGED <<dbContent, isUploading, uploadSuccess, tasks>>

\* removeFile
RemoveFile ==
  /\ page = "upload"
  /\ formData.file # NoFile
  /\ formData' = [formData EXCEPT !.file = NoFile]
  /\ previewContent' = ""
  /\ UNCHANGED <<dbContent, isUploading, uploadSuccess, uploadError, tasks>>

\* UploadHandleSubmit without the test of the title
UploadHandleSubmitAnyTitle ==
  /\ page = "upload"
  /\ ~isUploading
  /\ formData.title # EmptyString
  /\ uploadSuccess' = NullContent
  /\ IF formData.file = NoFile /\ Trim(formData.content) = EmptyString
     THEN uploadError' = ContentMissing /\ UNCHANGED <<isUploading, tasks>>
     ELSE /\ HasFreeSlot
          /\ uploadError' = NoError
          /\ isUploading' = TRUE
          /\ tasks' = Started(Task("upload.handleSubmit", 0, "sent"))
  /\ UNCHANGED <<dbContent, formData, previewContent>>

\* handleSubmit up to its await; the title input is `required`, the button is
\* disabled while isUploading
UploadHandleSubmit ==
  /\ page = "upload"
  /\ ~isUploading
  /\ formData.title # EmptyString
  /\ uploadSuccess' = NullContent
  /\ IF Trim(formData.title) = EmptyString
     THEN uploadError' = TitleMissing /\ UNCHANGED <<isUploading, tasks>>
     ELSE IF formData.file = NoFile /\ Trim(formData.content) = EmptyString
     THEN uploadError' = ContentMissing /\ UNCHANGED <<isUploading, tasks>>
     ELSE /\ HasFreeSlot
          /\ uploadError' = NoError
          /\ isUploading' = TRUE
          /\ tasks' = Started(Task("upload.handleSubmit", 0, "sent"))
  /\ UNCHANGED <<dbContent, formData, previewContent>>

\* POST /content/upload or /content: a CourseContent is created, without summary
NewContentId == CHOOSE c \in ContentIds : ~dbContent[c].exists /\ \A d \in 1..(c - 1) : dbContent[d].exists
ServeUpload(t, ok) ==
  /\ IsTask(t, "upload.handleSubmit", "sent")
  /\ IF ok /\ \E c \in ContentIds : ~dbContent[c].exists
     THEN /\ dbContent' = [dbContent EXCEPT ![NewContentId] = [exists |-> TRUE, summary |-> 0]]
          /\ tasks' = Replaced(t, Task("upload.handleSubmit", NewContentId, "ok"))
     ELSE dbContent' = dbContent /\ tasks' = Moved(t, "err")
  /\ UNCHANGED <<formData, isUploading, uploadSuccess, uploadError, previewContent>>

\* handleSubmit after the await, fulfilled: setUploadSuccess, resetForm, finally
UploadResolve(t) ==
  /\ IsTask(t, "upload.handleSubmit", "ok")
  /\ uploadSuccess' = [id |-> t.content_id, summary |-> 0]
  /\ formData' = EmptyForm
  /\ previewContent' = ""
  /\ isUploading' = FALSE
  /\ tasks' = Ended(t)
  /\ UNCHANGED <<dbContent, uploadError>>

\* handleSubmit after the await, rejected: catch, finally
UploadReject(t) ==
  /\ IsTask(t, "upload.handleSubmit", "err")
  /\ uploadError' = UploadFailed
  /\ isUploading' = FALSE
  /\ tasks' = Ended(t)
  /\ UNCHANGED <<dbContent, formData, uploadSuccess, previewContent>>

\* the upload page mounted; one content is stored
InitUpload ==
  /\ dbContent = [c \in ContentIds |-> [exists |-> c = 1, summary |-> 0]]
  /\ catalog = CatalogA
  /\ results = <<>>
  /\ apiReq = NoRequest
  /\ InitMappingPageIdle
  /\ InitContentPageIdle
  /\ InitUploadPageIdle
  /\ InitSettingsPageIdle
  /\ InitToolsIdle
  /\ contents = {}
  /\ isLoading = FALSE
  /\ mappingResults = NullResult
  /\ formData = EmptyForm
  /\ tasks = NoTasks
  /\ page = "upload"

NextUpload ==
  \/ \E t \in TitleInputs : SetTitle(t) /\ UNCHANGED uploadFrame
  \/ \E t \in ContentInputs : SetContent(t) /\ UNCHANGED uploadFrame
  \/ \E file \in FileInputs, readOk \in BOOLEAN :
       HandleFileSelect(file, readOk) /\ UNCHANGED uploadFrame
  \/ RemoveFile /\ UNCHANGED uploadFrame
  \/ UploadHandleSubmit /\ UNCHANGED uploadFrame
  \/ \E t \in BagToSet(tasks), ok \in BOOLEAN : ServeUpload(t, ok) /\ UNCHANGED uploadFrame
  \/ \E t \in BagToSet(tasks) : UploadResolve(t) /\ UNCHANGED uploadFrame
  \/ \E t \in BagToSet(tasks) : UploadReject(t) /\ UNCHANGED uploadFrame

\* the upload page against the backend
SpecUpload == InitUpload /\ [][NextUpload]_vars

---------------------------------------------------------------------------
(* Settings page *)

SettingIds == {1, 2}
\* formData holding the default values, or the values copied from a setting
SettingsForm(id) == [values_of |-> id]
DefaultForm == SettingsForm(0)

SettingsRendered == page = "settings" /\ ~isLoading

settingsFrame == <<backendVars, apiReq, mappingOnlyVars, contents, mappingResults,
                   contentOnlyVars, uploadOnlyVars, page,
                   toolVars>>

\* handleEdit
HandleEdit(setting) ==
  /\ SettingsRendered
  /\ setting \in settings
  /\ formData' = SettingsForm(setting)
  /\ editingId' = setting
  /\ isCreating' = TRUE
  /\ UNCHANGED <<dbSettings, settings, isLoading, tasks>>

\* resetForm, from the Cancel button
ResetForm ==
  /\ SettingsRendered
  /\ isCreating \/ editingId # 0
  /\ formData' = DefaultForm
  /\ editingId' = 0
  /\ isCreating' = FALSE
  /\ UNCHANGED <<dbSettings, settings, isLoading, tasks>>

\* handleSubmit up to its first await: update(editingId) or create
SettingsHandleSubmit ==
  /\ SettingsRendered
  /\ HasFreeSlot
  /\ tasks' = Started(Task("settings.handleSubmit", editingId, "sent"))
  /\ UNCHANGED <<dbSettings, settings, isLoading, formData, isCreating, editingId>>

\* handleDelete up to its first await, the confirm() accepted
SettingsHandleDelete(setting) ==
  /\ SettingsRendered
  /\ setting \in settings
  /\ HasFreeSlot
  /\ tasks' = Started(Task("settings.handleDelete", setting, "sent"))
  /\ UNCHANGED <<dbSettings, settings, isLoading, formData, isCreating, editingId>>

\* POST /settings (id 0) or PUT /settings/{id}
NewSettingId == CHOOSE n \in SettingIds : n \notin dbSettings /\ \A m \in 1..(n - 1) : m \in dbSettings
ServeSettingsSave(t, ok) ==
  /\ IsTask(t, "settings.handleSubmit", "sent")
  /\ LET id == t.content_id IN
     IF ok /\ id = 0 /\ dbSettings # SettingIds
     THEN dbSettings' = dbSettings \cup {NewSettingId} /\ tasks' = Moved(t, "ok")
     ELSE IF ok /\ id \in dbSettings
     THEN dbSettings' = dbSettings /\ tasks' = Moved(t, "ok")
     ELSE dbSettings' = dbSettings /\ tasks' = Moved(t, "err")
  /\ UNCHANGED <<settings, isLoading, formData, isCreating, editingId>>

\* DELETE /settings/{id}
ServeSettingsDelete(t, ok) ==
  /\ IsTask(t, "settings.handleDelete", "sent")
  /\ LET id == t.content_id IN
     IF ok /\ id \in dbSettings
     THEN dbSettings' = dbSettings \ {id} /\ tasks' = Moved(t, "ok")
     ELSE dbSettings' = dbSettings /\ tasks' = Moved(t, "err")
  /\ UNCHANGED <<settings, isLoading, formData, isCreating, editingId>>

SettingsWriters == {"settings.handleSubmit", "settings.handleDelete"}

\* handleSubmit or handleDelete after its request is fulfilled: loadData is called
SettingsWriteResolve(t) ==
  /\ \E h \in SettingsWriters : IsTask(t, h, "ok")
  /\ isLoading' = TRUE
  /\ tasks' = Moved(t, "loading")
  /\ UNCHANGED <<dbSettings, settings, formData, isCreating, editingId>>

\* handleSubmit or handleDelete after its request is rejected: catch
SettingsWriteReject(t) ==
  /\ \E h \in SettingsWriters : IsTask(t, h, "err")
  /\ tasks' = Ended(t)
  /\ UNCHANGED <<dbSettings, settings, isLoading, formData, isCreating, editingId>>

SettingsLoaders == SettingsWriters \cup {"settings.loadData"}

\* what the caller of loadData does once it returns: handleSubmit calls resetForm
AfterLoadData(t) ==
  IF t.handler = "settings.handleSubmit"
  THEN /\ formData' = DefaultForm
       /\ editingId' = 0
       /\ isCreating' = FALSE
  ELSE UNCHANGED <<formData, editingId, isCreating>>

\* loadData after its await, the three requests fulfilled; then back in its caller
SettingsLoadResolve(t) ==
  /\ \E h \in SettingsLoaders : IsTask(t, h, "loading")
  /\ settings' = dbSettings
  /\ isLoading' = FALSE
  /\ AfterLoadData(t)
  /\ tasks' = Ended(t)
  /\ UNCHANGED dbSettings

\* loadData after its await, a request failed; then back in its caller
SettingsLoadReject(t) ==
  /\ \E h \in SettingsLoaders : IsTask(t, h, "loading")
  /\ isLoading' = FALSE
  /\ AfterLoadData(t)
  /\ tasks' = Ended(t)
  /\ UNCHANGED <<dbSettings, settings>>

\* the settings page mounted, its effect has called loadData; one setting is stored
InitSettings ==
  /\ InitBackend
  /\ apiReq = NoRequest
  /\ InitMappingPageIdle
  /\ InitContentPageIdle
  /\ InitUploadPageIdle
  /\ InitToolsIdle
  /\ dbSettings = {1}
  /\ settings = {}
  /\ isCreating = FALSE
  /\ editingId = 0
  /\ contents = {}
  /\ isLoading = TRUE
  /\ mappingResults = NullResult
  /\ formData = DefaultForm
  /\ tasks = SetToBag({Task("settings.loadData", 0, "loading")})
  /\ page = "settings"

NextSettings ==
  \/ \E setting \in settings : HandleEdit(setting) /\ UNCHANGED settingsFrame
  \/ ResetForm /\ UNCHANGED settingsFrame
  \/ SettingsHandleSubmit /\ UNCHANGED settingsFrame
  \/ \E setting \in settings : SettingsHandleDelete(setting) /\ UNCHANGED settingsFrame
  \/ \E t \in BagToSet(tasks), ok \in BOOLEAN :
       ServeSettingsSave(t, ok) /\ UNCHANGED settingsFrame
  \/ \E t \in BagToSet(tasks), ok \in BOOLEAN :
       ServeSettingsDelete(t, ok) /\ UNCHANGED settingsFrame
  \/ \E t \in BagToSet(tasks) : SettingsWriteResolve(t) /\ UNCHANGED settingsFrame
  \/ \E t \in BagToSet(tasks) : SettingsWriteReject(t) /\ UNCHANGED settingsFrame
  \/ \E t \in BagToSet(tasks) : SettingsLoadResolve(t) /\ UNCHANGED settingsFrame
  \/ \E t \in BagToSet(tasks) : SettingsLoadReject(t) /\ UNCHANGED settingsFrame

\* the settings page against the backend
SpecSettings == InitSettings /\ [][NextSettings]_vars

---------------------------------------------------------------------------
(* The application: one of its pages is mounted *)

InitPages == InitMapping \/ InitContent \/ InitUpload \/ InitSettings

NextPages == NextMapping \/ NextContent \/ NextUpload \/ NextSettings

SpecPages == InitPages /\ [][NextPages]_vars

---------------------------------------------------------------------------
(* The pages with busy flags, every API call eventually answered *)

InitBusyPages == InitMapping \/ InitContent \/ InitUpload

NextBusyPages == NextMapping \/ NextContent \/ NextUpload

\* the calls a page can have pending
PendingTasks ==
  {Task("loadContents", 0, "loading")}
    \cup {Task("loadMappingResults", c, "loading") : c \in ContentIds}
    \cup {Task(h, c, phase) : h \in {"handleGenerateSummary", "handleDeleteContent"},
                              c \in ContentIds, phase \in {"sent", "ok", "err", "loading"}}
    \cup {Task("upload.handleSubmit", c, phase) : c \in {0} \cup ContentIds,
                                                 phase \in {"sent", "ok", "err"}}

\* the map-content request is answered, its promise settles
MapSettles ==
  \/ \E llm \in LLMOutputs \cup {LLMFailure} :
       ServeMap(llm) /\ UNCHANGED <<apiReq, otherPagesVars>>
  \/ MapResolve /\ UNCHANGED <<backendVars, apiReq, otherPagesVars>>
  \/ MapReject /\ UNCHANGED <<backendVars, apiReq, otherPagesVars>>

\* the three requests of a loadData call settle
LoadDataSettles(pre) ==
  \/ LoadDataResolve(pre) /\ UNCHANGED <<backendVars, apiReq, otherPagesVars>>
  \/ LoadDataReject(pre) /\ UNCHANGED <<backendVars, apiReq, otherPagesVars>>

\* the request of call t is answered, its promise settles
TaskSettles(t) ==
  /\ t \in BagToSet(tasks)
  /\ \/ \E ok \in BOOLEAN : ServeGenerateSummary(t, ok) /\ UNCHANGED contentFrame
     \/ \E ok \in BOOLEAN : ServeDeleteContent(t, ok) /\ UNCHANGED contentFrame
     \/ GenerateSummaryResolve(t) /\ UNCHANGED contentFrame
     \/ GenerateSummaryReject(t) /\ UNCHANGED contentFrame
     \/ DeleteContentResolve(t) /\ UNCHANGED contentFrame
     \/ DeleteContentReject(t) /\ UNCHANGED contentFrame
     \/ LoadContentsResolve(t) /\ UNCHANGED contentFrame
     \/ LoadContentsReject(t) /\ UNCHANGED contentFrame
     \/ LoadMappingResultsResolve(t) /\ UNCHANGED contentFrame
     \/ LoadMappingResultsReject(t) /\ UNCHANGED contentFrame
     \/ \E ok \in BOOLEAN : ServeUpload(t, ok) /\ UNCHANGED uploadFrame
     \/ UploadResolve(t) /\ UNCHANGED uploadFrame
     \/ UploadReject(t) /\ UNCHANGED uploadFrame

\* every API call eventually resolves or rejects, and the continuation runs
EveryCallSettles ==
  /\ WF_vars(MapSettles)
  /\ \A pre \in PreselectInputs : WF_vars(LoadDataSettles(pre))
  /\ \A t \in PendingTasks : WF_vars(TaskSettles(t))

SpecBusyPagesFair == InitBusyPages /\ [][NextBusyPages]_vars /\ EveryCallSettles

---------------------------------------------------------------------------
(* Catalog importer (specification 4.1; the script is not in the source tree) *)

\* one CSV data row: Job Role, NOS Code, NOS Name, PC code, PC Description
Row(role, nos, name, pc, desc) ==
  [job_role |-> role, nos_code |-> nos, nos_name |-> name, pc_code |-> pc, pc_description |-> desc]

\* rows a file may hold: fully populated, padded with spaces, of the same natural
\* key with another description, of another group, and hierarchical (leading
\* fields blank), one of them with a description that is empty once trimmed
CsvRowInputs == {
  Row(RoleDev, <<"N", "1">>, <<"O", "n", "e">>, <<"P", "1">>, <<"d">>),
  Row(<<" ">> \o RoleDev, <<"N", "1", " ">>, <<"O", "n", "e">>, <<"P", "1", " ">>, <<" ", "d">>),
  Row(RoleDev, <<"N", "1">>, <<"O", "n", "e">>, <<"P", "1">>, <<"e">>),
  Row(RoleOps, <<"N", "2">>, <<"T", "w", "o">>, <<"P", "1">>, <<"d">>),
  Row(EmptyString, EmptyString, EmptyString, <<"P", "1">>, <<"d">>),
  Row(EmptyString, EmptyString, EmptyString, <<"P", "2">>, <<" ">>)
}

\* how the importer finds the path: readable with the required headers ("ok"),
\* or not found, without the required headers, or in no encoding of the list
FatalKinds == {"not_found", "missing_headers", "unreadable_encoding"}
FileKinds == {"ok"} \cup FatalKinds

\* the three leading fields are blank
LeadingBlank(row) ==
  row.job_role = EmptyString /\ row.nos_code = EmptyString /\ row.nos_name = EmptyString

\* no row with leading fields was read yet
NoRow == [none |-> TRUE]

\* Filled that fills nothing
FilledNone(row, last) == row

\* forward-fill of one row from the most recent row whose leading fields are not blank
Filled(row, last) ==
  IF LeadingBlank(row) /\ last # NoRow
  THEN [row EXCEPT !.job_role = last.job_role, !.nos_code = last.nos_code,
                   !.nos_name = last.nos_name]
  ELSE row

\* whitespace trimmed on all fields
TrimRow(row) ==
  Row(Trim(row.job_role), Trim(row.nos_code), Trim(row.nos_name), Trim(row.pc_code),
      Trim(row.pc_description))

\* each row with its position in the file
Numbered(rows) == [i \in 1..Len(rows) |-> [line |-> i, rec |-> rows[i]]]

\* DropDuplicates that keeps every row
DropDuplicatesNone(entries) == entries

\* exact-duplicate rows dropped, the first of them kept
DropDuplicates(entries) ==
  LET First(e) == \A j \in 1..(e.line - 1) : entries[j].rec # e.rec
  IN SelectSeq(entries, First)

\* a row is rejected (skipped and logged) when criterion_description or
\* standard_code is empty after trimming
ValidRow(rec) == rec.pc_description # EmptyString /\ rec.nos_code # EmptyString

\* the cleaned rows of a file, from its rows after the fill: trimmed, without
\* exact duplicates, without rejected rows, in file order
CleanCsv(filled) ==
  LET trimmed == [i \in 1..Len(filled) |-> TrimRow(filled[i])]
      Kept(e) == ValidRow(e.rec)
  IN SelectSeq(DropDuplicates(Numbered(trimmed)), Kept)

\* an import is running
Importing == importRun.phase \in {"reading", "open", "inserting"}

\* the importer is started on a path.  A file that is not found or structurally
\* invalid aborts the run before any statement
ImportStart(kind) ==
  /\ ~Importing
  /\ importRun' = IF kind \in FatalKinds
                  THEN [phase |-> "aborted", kind |-> kind, before |-> catalog]
                  ELSE [phase |-> "reading", before |-> catalog, raw |-> <<>>,
                        filled |-> <<>>, last |-> NoRow]
  /\ UNCHANGED <<dbContent, catalog, results>>

\* the next row of the file is read and filled
ImportReadRow(row) ==
  /\ importRun.phase = "reading"
  /\ Len(importRun.raw) < MaxRows
  /\ importRun' = [importRun EXCEPT
                     !.raw = Append(@, row),
                     !.filled = Append(@, Filled(row, importRun.last)),
                     !.last = IF LeadingBlank(row) THEN @ ELSE row]
  /\ UNCHANGED <<dbContent, catalog, results>>

\* the end of the file: the rows are cleaned and the transaction begins
ImportEndOfFile ==
  /\ importRun.phase = "reading"
  /\ importRun' = [phase |-> "open", before |-> importRun.before, raw |-> importRun.raw,
                   table |-> catalog, todo |-> CleanCsv(importRun.filled), inserted |-> <<>>]
  /\ UNCHANGED <<dbContent, catalog, results>>

\* ImportClear with the deletion committed at once
ImportClearAutocommit ==
  /\ importRun.phase = "open"
  /\ importRun' = [importRun EXCEPT !.phase = "inserting", !.table = {}]
  /\ catalog' = {}
  /\ UNCHANGED <<dbContent, results>>

\* ImportClear left out: the new rows are added to the old ones
ImportClearSkipped ==
  /\ importRun.phase = "open"
  /\ importRun' = [importRun EXCEPT !.phase = "inserting"]
  /\ UNCHANGED <<dbContent, catalog, results>>

\* the entire catalog table is cleared, inside the transaction
ImportClear ==
  /\ importRun.phase = "open"
  /\ importRun' = [importRun EXCEPT !.phase = "inserting", !.table = {}]
  /\ UNCHANGED <<dbContent, catalog, results>>

\* one cleaned row is written; a write that fails rolls the transaction back
ImportInsert(ok) ==
  /\ importRun.phase = "inserting"
  /\ importRun.todo # <<>>
  /\ importRun' = IF ok
                  THEN [importRun EXCEPT !.table = @ \cup {Head(importRun.todo).rec},
                                         !.todo = Tail(@),
                                         !.inserted = Append(@, Head(importRun.todo))]
                  ELSE [phase |-> "rolled_back", before |-> importRun.before,
                        written |-> Len(importRun.inserted)]
  /\ UNCHANGED <<dbContent, catalog, results>>

\* the transaction commits: the table of the transaction becomes the catalog
ImportCommit ==
  /\ importRun.phase = "inserting"
  /\ importRun.todo = <<>>
  /\ catalog' = importRun.table
  /\ importRun' = [phase |-> "done", before |-> importRun.before, raw |-> importRun.raw,
                   inserted |-> importRun.inserted]
  /\ UNCHANGED <<dbContent, results>>

importFrame == <<apiReq, mappingPageVars, contentOnlyVars, uploadOnlyVars, settingsOnlyVars,
                 formData, tasks, page, download, exportData>>

\* a database whose catalog table was created and never filled
InitImport ==
  /\ dbContent = [c \in ContentIds |-> [exists |-> FALSE, summary |-> 0]]
  /\ catalog = {}
  /\ results = <<>>
  /\ apiReq = NoRequest
  /\ InitMappingPageIdle
  /\ contents = {}
  /\ isLoading = FALSE
  /\ mappingResults = NullResult
  /\ InitOtherPagesIdle
  /\ page = "none"

NextImport ==
  \/ \E kind \in FileKinds : ImportStart(kind) /\ UNCHANGED importFrame
  \/ \E row \in CsvRowInputs : ImportReadRow(row) /\ UNCHANGED importFrame
  \/ ImportEndOfFile /\ UNCHANGED importFrame
  \/ ImportClear /\ UNCHANGED importFrame
  \/ \E ok \in BOOLEAN : ImportInsert(ok) /\ UNCHANGED importFrame
  \/ ImportCommit /\ UNCHANGED importFrame

\* the importer run on files, one run after the other
SpecImport == InitImport /\ [][NextImport]_vars

---------------------------------------------------------------------------
(* Client-side export (mapping page, its earlier version, content page) *)

\* Texts are sequences of characters; a literal of the source that holds no
\* quote, comma or line break is kept as one element.

DQ == "\""
LF == "\n"

\* an optional text that is absent, and contents.find(...) that found nothing
Undefined == <<"<undefined>">>
NoSelectedContent == [undefined |-> TRUE]

\* MappedStandardDetail
Detail(std, score, reasoning, gap) ==
  [standard |-> std, confidence_score |-> score, reasoning |-> reasoning, gap_analysis |-> gap]

\* details of the exported results: a comma-joined job role, a quote character in
\* a description, a line break in a reasoning, gap analysis absent, empty and given
ExportDetails == {
  Detail(Row(RoleDev, <<"N", "1">>, <<"O", "n", "e">>, <<"P", "1">>, <<"d">>),
         90, <<"r">>, Undefined),
  Detail(Row(RoleQaDev, <<"N", "2">>, <<"T", "w", "o">>, <<"P", "1">>, <<"a", DQ, "b">>),
         7, <<"x", LF, "y">>, <<"g">>),
  Detail(Row(RoleOps, <<"N", "3">>, <<"S", "i", "x">>, <<"P", "2">>, <<"l", "o", "n", "g">>),
         100, <<"w", "h", "y">>, EmptyString)
}

ExportResult(details, overall, filter) ==
  [mapped_standards |-> details, overall_gap_analysis |-> overall, job_role_filter |-> filter,
   summary_used |-> <<"s">>]

ExportResultInputs ==
  {ExportResult(details, overall, filter) :
     details \in UNION {[1..n -> ExportDetails] : n \in 0..MaxDetails},
     overall \in {Undefined, <<"o">>, <<"m", "o", "r", "e">>},
     filter \in {Undefined, RoleDev}}

\* titles of the contents
ExportTitles == {<<"P", "y", " ", "3">>, <<"a", ".", "B", "_">>}

\* number.toString() of a non-negative integer
RECURSIVE NumberToString(_)
NumberToString(n) ==
  IF n < 10 THEN <<Digit[n + 1]>> ELSE NumberToString(n \div 10) \o <<Digit[(n % 10) + 1]>>

\* Array.prototype.join
RECURSIVE Join(_, _)
Join(parts, sep) ==
  IF parts = <<>> THEN <<>>
  ELSE IF Len(parts) = 1 THEN parts[1]
  ELSE parts[1] \o sep \o Join(Tail(parts), sep)

\* detail.gap_analysis || ''
OrEmpty(v) == IF v = Undefined THEN EmptyString ELSE v

\* the header row and the rows of the details, 8 cells each
CsvHeader ==
  <<<<"Job Role">>, <<"NOS Code">>, <<"NOS Name">>, <<"PC Code">>, <<"PC Description">>,
    <<"Confidence Score">>, <<"Reasoning">>, <<"Gap Analysis">>>>

CsvDetailRow(detail) ==
  <<detail.standard.job_role, detail.standard.nos_code, detail.standard.nos_name,
    detail.standard.pc_code, detail.standard.pc_description,
    NumberToString(detail.confidence_score), detail.reasoning, OrEmpty(detail.gap_analysis)>>

CsvRows(result) ==
  <<CsvHeader>> \o [i \in 1..Len(result.mapped_standards) |->
                     CsvDetailRow(result.mapped_standards[i])]

\* the header row and the rows of the earlier mapping page, 5 cells each
CsvHeaderV1 ==
  <<<<"Job Role">>, <<"NOS Code">>, <<"NOS Name">>, <<"PC Code">>, <<"PC Description">>>>

CsvStandardRowV1(detail) ==
  <<detail.standard.job_role, detail.standard.nos_code, detail.standard.nos_name,
    detail.standard.pc_code, detail.standard.pc_description>>

CsvRowsV1(result) ==
  <<CsvHeaderV1>> \o [i \in 1..Len(result.mapped_standards) |->
                       CsvStandardRowV1(result.mapped_standards[i])]

\* `"${cell}"`
CsvCell(cell) == <<DQ>> \o cell \o <<DQ>>

\* `&quot;${cell}&quot;` of the earlier mapping page
CsvCellV1(cell) == <<"&quot;">> \o cell \o <<"&quot;">>

\* rows.map(row => row.map(cell => ...).join(',')).join('\n')
CsvContent(rows) ==
  Join([r \in 1..Len(rows) |-> Join([c \in 1..Len(rows[r]) |-> CsvCell(rows[r][c])], <<",">>)],
       <<LF>>)

CsvContentV1(rows) ==
  Join([r \in 1..Len(rows) |-> Join([c \in 1..Len(rows[r]) |-> CsvCellV1(rows[r][c])], <<",">>)],
       <<LF>>)

\* the characters /[^a-z0-9]/gi leaves alone
Alphanumerics ==
  {"a", "b", "c", "d", "e", "f", "g", "h", "i", "j", "k", "l", "m", "n", "o", "p", "q", "r",
   "s", "t", "u", "v", "w", "x", "y", "z",
   "A", "B", "C", "D", "E", "F", "G", "H", "I", "J", "K", "L", "M", "N", "O", "P", "Q", "R",
   "S", "T", "U", "V", "W", "X", "Y", "Z",
   "0", "1", "2", "3", "4", "5", "6", "7", "8", "9"}

\* title.replace(/[^a-z0-9]/gi, '_')
ReplaceNonAlphanumerics(title) ==
  [i \in 1..Len(title) |-> IF title[i] \in Alphanumerics THEN title[i] ELSE "_"]

\* `mapping_results_${selectedContent?.title.replace(...)}.csv`: with no selected
\* content the optional chain gives undefined, printed as 'undefined'
FileName(content, extension) ==
  <<"mapping_results_">>
    \o (IF content = NoSelectedContent THEN <<"undefined">> ELSE ReplaceNonAlphanumerics(content.title))
    \o <<extension>>


\* ---- the PDF of the mapping page (jsPDF) ----

\* yPosition after doc.addPage()
PageTop == 20
\* a detail block starts on a new page when yPosition is beyond this
DetailThreshold == 250
\* the overall gap analysis starts on a new page when yPosition is beyond this
OverallGapThreshold == 200
\* a line of the overall gap analysis goes to a new page when yPosition is beyond this
GapLineThreshold == 280

\* doc.splitTextToSize(text, 160).length: a line ends at a line break and when
\* LineChars characters are on it; the labels put before a text take no room
RECURSIVE WrappedFrom(_, _, _)
WrappedFrom(text, i, column) ==
  IF i > Len(text) THEN 1
  ELSE IF text[i] = LF THEN 1 + WrappedFrom(text, i + 1, 0)
  ELSE IF column = LineChars THEN 1 + WrappedFrom(text, i + 1, 1)
  ELSE WrappedFrom(text, i + 1, column + 1)

SplitTextToSize(text) == WrappedFrom(text, 1, 0)

\* the document under construction: the cursor yPosition, the page, the text drawn so far
NewPdf == [y |-> 0, page |-> 1, draws |-> <<>>]

Draw(block, index, y, pageNo) == [block |-> block, index |-> index, y |-> y, page |-> pageNo]

\* the sum of the first n numbers of a sequence
RECURSIVE SumTo(_, _)
SumTo(numbers, n) == IF n = 0 THEN 0 ELSE numbers[n] + SumTo(numbers, n - 1)

\* doc.text(...) line after line from the cursor, `advances' the yPosition += of each line
TextLines(doc, block, index, advances) ==
  [doc EXCEPT !.draws = @ \o [i \in 1..Len(advances) |->
                                Draw(block, index, doc.y + SumTo(advances, i - 1), doc.page)],
              !.y = @ + SumTo(advances, Len(advances))]

AddPage(doc) == [doc EXCEPT !.page = @ + 1, !.y = PageTop]

\* the title and the content information; no job-role filter line
PdfHeader ==
  LET heading == TextLines([NewPdf EXCEPT !.y = 20], "heading", 0, <<15>>)
      title == TextLines(heading, "header.title", 0, <<10>>)
      confidence == TextLines(title, "header.confidence", 0, <<10>>)
      standards == TextLines(confidence, "header.count", 0, <<10>>)
      timestamp == TextLines(standards, "header.timestamp", 0, <<20>>)
  IN TextLines(timestamp, "heading", 0, <<15>>)

\* the yPosition += of the lines of a detail: job role, NOS code, NOS name, PC code, the
\* wrapped description, confidence, the wrapped reasoning and the wrapped gap analysis
DetailAdvances(detail) ==
  <<8, 6, 6, 6>>
    \o [i \in 1..SplitTextToSize(detail.standard.pc_description) |-> 6]
    \o <<6>>
    \o [i \in 1..SplitTextToSize(detail.reasoning) |-> 6]
    \o (IF detail.gap_analysis \in {Undefined, EmptyString} THEN <<>>
        ELSE [i \in 1..SplitTextToSize(detail.gap_analysis) |-> 6])

\* one pass of mapped_standards.forEach: the page test comes before the block only
PdfDetail(doc, detail, index) ==
  LET start == IF doc.y > DetailThreshold THEN AddPage(doc) ELSE doc
      drawn == TextLines(start, "detail", index, DetailAdvances(detail))
  IN [drawn EXCEPT !.y = @ + 5]

RECURSIVE PdfDetails(_, _, _)
PdfDetails(doc, details, n) ==
  IF n = 0 THEN doc ELSE PdfDetail(PdfDetails(doc, details, n - 1), details[n], n)

\* the lines of the overall gap analysis, a page test before each
RECURSIVE PdfGapLines(_, _)
PdfGapLines(doc, n) ==
  IF n = 0 THEN doc
  ELSE LET before == PdfGapLines(doc, n - 1)
       IN TextLines(IF before.y > GapLineThreshold THEN AddPage(before) ELSE before,
                    "overall_gap", 0, <<6>>)

\* the overall gap analysis, when there is one; no summary block follows
PdfOverallGap(doc, overall) ==
  IF overall \in {Undefined, EmptyString} THEN doc
  ELSE LET start == IF doc.y > OverallGapThreshold THEN AddPage(doc) ELSE doc
       IN PdfGapLines(TextLines(start, "overall_gap", 0, <<15>>), SplitTextToSize(overall))

PdfDocument(result) ==
  PdfOverallGap(PdfDetails(PdfHeader, result.mapped_standards, Len(result.mapped_standards)),
                result.overall_gap_analysis).draws

\* ---- the text document of the content page ----

TextBlock(block, index) == [block |-> block, index |-> index]

TextDocument(result) ==
  <<TextBlock("heading", 0), TextBlock("header.title", 0), TextBlock("header.confidence", 0),
    TextBlock("header.count", 0), TextBlock("header.timestamp", 0),
    TextBlock("header.filter", 0), TextBlock("heading", 0)>>
    \o [i \in 1..Len(result.mapped_standards) |-> TextBlock("detail", i)]
    \o (IF result.overall_gap_analysis \in {Undefined, EmptyString} THEN <<>>
        ELSE <<TextBlock("overall_gap", 0)>>)
    \o <<TextBlock("summary_used", 0)>>

\* ---- the export handlers ----

\* what the browser is handed: the file name, the result and the content it was made from, and
\* the cells and the text of a CSV file or the blocks of a document
CsvFile(path, name, result, content, rows, text) ==
  [path |-> path, format |-> "csv", name |-> name, result |-> result, content |-> content,
   rows |-> rows, text |-> text]

DocumentFile(path, name, result, content, blocks) ==
  [path |-> path, format |-> "pdf", name |-> name, result |-> result, content |-> content,
   blocks |-> blocks]

\* exportResults(format) of the mapping page
ExportResultsFile(result, content, format) ==
  IF format = "csv"
  THEN CsvFile("mapping", FileName(content, ".csv"), result, content,
               CsvRows(result), CsvContent(CsvRows(result)))
  ELSE DocumentFile("mapping", FileName(content, ".pdf"), result, content,
                    PdfDocument(result))

\* exportResults() of the earlier mapping page
ExportResultsFileV1(result, content) ==
  CsvFile("mapping.v1", FileName(content, ".csv"), result, content,
          CsvRowsV1(result), CsvContentV1(CsvRowsV1(result)))

\* exportMappingResults(content, mappingResult, format) of the content page
ExportMappingResultsFile(content, result, format) ==
  IF format = "csv"
  THEN CsvFile("content", FileName(content, ".csv"), result, content,
               CsvRows(result), CsvContent(CsvRows(result)))
  ELSE DocumentFile("content", FileName(content, ".txt"), result, content,
                    TextDocument(result))

ExportFormats == {"csv", "pdf"}

ExportResults(format) ==
  /\ exportData # NoExportData
  /\ download' = ExportResultsFile(exportData.result, exportData.content, format)

ExportResultsV1 ==
  /\ exportData # NoExportData
  /\ download' = ExportResultsFileV1(exportData.result, exportData.content)

\* the dialog of the content page is open on a content
ExportMappingResults(format) ==
  /\ exportData # NoExportData
  /\ exportData.content # NoSelectedContent
  /\ download' = ExportMappingResultsFile(exportData.content, exportData.result, format)

exportFrame == <<backendVars, apiReq, mappingPageVars, contentOnlyVars, uploadOnlyVars,
                 settingsOnlyVars, formData, tasks, page, importRun, exportData>>

\* a page shows a mapping result; the mapping pages may have lost the selected content
InitExport ==
  /\ dbContent = [c \in ContentIds |-> [exists |-> FALSE, summary |-> 0]]
  /\ catalog = {}
  /\ results = <<>>
  /\ apiReq = NoRequest
  /\ InitMappingPageIdle
  /\ contents = {}
  /\ isLoading = FALSE
  /\ mappingResults = NullResult
  /\ InitContentPageIdle
  /\ InitUploadPageIdle
  /\ InitSettingsPageIdle
  /\ formData = NoForm
  /\ tasks = NoTasks
  /\ page = "none"
  /\ download = NoDownload
  /\ importRun = NoImport
  /\ exportData \in [result : ExportResultInputs,
                     content : {[title |-> t] : t \in ExportTitles} \cup {NoSelectedContent}]

NextExport ==
  \/ \E format \in ExportFormats : ExportResults(format) /\ UNCHANGED exportFrame
  \/ ExportResultsV1 /\ UNCHANGED exportFrame
  \/ \E format \in ExportFormats : ExportMappingResults(format) /\ UNCHANGED exportFrame

\* the export handlers run on a mapping result
SpecExport == InitExport /\ [][NextExport]_vars


\* ---- export on the mounted mapping page ----

\* the titles of the stored contents
ContentTitle == [c \in ContentIds |-> IF c = 1 THEN <<"P", "y", " ", "3">> ELSE <<"a", ".", "B", "_">>]

\* const selectedContent = contents.find(c => c.id.toString() === selectedContentId)
MappingSelectedContent ==
  IF \E c \in contents : IdToString(c.id) = selectedContentId
  THEN [title |-> ContentTitle[(CHOOSE c \in contents : IdToString(c.id) = selectedContentId).id]]
  ELSE NoSelectedContent

\* an Export button of the mapping page, rendered whenever mappingResults is set: the
\* file is named as ExportResultsFile names it; of its body the content the result is
\* about is kept
MappingExportResults(format) ==
  /\ Rendered
  /\ mappingResults # NullResult
  /\ download' = [path |-> "mapping", format |-> format,
                  name |-> FileName(MappingSelectedContent,
                                    IF format = "csv" THEN ".csv" ELSE ".pdf"),
                  content |-> MappingSelectedContent,
                  content_id |-> mappingResults.content_id]

NextMappingExport ==
  \/ NextMapping
  \/ \E format \in ExportFormats : MappingExportResults(format) /\ UNCHANGED exportFrame

\* the mapping page with its Export buttons
SpecMappingExport == InitMapping /\ [][NextMappingExport]_vars

\* the mapping page mounted over two stored contents, both summarised
InitMappingSummarised ==
  /\ dbContent = [c \in ContentIds |-> [exists |-> TRUE, summary |-> 1]]
  /\ catalog = CatalogA
  /\ results = <<>>
  /\ apiReq = NoRequest
  /\ preselectedContentId \in PreselectInputs
  /\ contents = {}
  /\ jobRoles = {}
  /\ selectedContentId = EmptyString
  /\ selectedJobRoleFilter = All
  /\ isMapping = FALSE
  /\ mappingResults = NullResult
  /\ mappingError = NoError
  /\ isLoading = TRUE
  /\ loads = {preselectedContentId}
  /\ mapReq = NoRequest
  /\ everListed = {}
  /\ InitOtherPagesIdle
  /\ page = "mapping"

\* the mapping page with its Export buttons when every content can be mapped
SpecMappingExportSummarised == InitMappingSummarised /\ [][NextMappingExport]_vars

---------------------------------------------------------------------------
(* Properties *)

\* the service handles request `req` in this step, leaving it as `reqNext`
Served(req, reqNext) == req.state = "sent" /\ reqNext.state # "sent"

SummaryMissing(content_id) ==
  /\ content_id \in ContentIds
  /\ dbContent[content_id].exists
  /\ dbContent[content_id].summary = 0

MissingSummaryRejected(req, reqNext) ==
  (Served(req, reqNext) /\ SummaryMissing(req.content_id))
    => /\ reqNext.state = "err"
       /\ reqNext.kind = "missing_summary"
       /\ results' = results

\* C1: a map-content call on a stored content whose summary is null or empty is
\* answered with the missing-summary precondition error and leaves the stored
\* mapping results exactly as they were.
C1_MissingSummaryRejected ==
  [][MissingSummaryRejected(apiReq, apiReq') /\ MissingSummaryRejected(mapReq, mapReq')]_vars

\* the call on summary-less content 1 was rejected, results being stored already
C1_Witness ==
  /\ apiReq.state = "err"
  /\ apiReq.kind = "missing_summary"
  /\ SummaryMissing(apiReq.content_id)
  /\ Len(results) > 0

\* C2: on the mapping page selectedContentId is empty or the id of a content that
\* was listed, with a non-empty summary, in a loaded contents list (also when it
\* comes from ?content=); every listed content has a summary in the store, and a
\* map-content request in flight is for such a content, never for one without a
\* summary.
C2_OnlySummarisedSelectable ==
  /\ selectedContentId = EmptyString \/ \E c \in everListed : IdToString(c) = selectedContentId
  /\ \A c \in everListed : dbContent[c].summary # 0
  /\ mapReq.state = "sent" => mapReq.content_id \in everListed /\ ~SummaryMissing(mapReq.content_id)

\* /mapping?content=1 has loaded, content 1 has no summary, and nothing is selected
C2_Witness ==
  /\ preselectedContentId = IdToString(1)
  /\ SummaryMissing(1)
  /\ ~isLoading
  /\ loads = {}
  /\ contents # {}
  /\ selectedContentId = EmptyString

\* C3: every entry of a newly persisted MappingResult refers to a StandardRecord
\* of the catalog as it is when the mapping runs; an entry of the LLM answer with
\* a (standard_code, criterion_code) pair absent from the catalog is not persisted.
C3_HallucinationGuard ==
  [][Len(results') > Len(results) =>
       LET row == results'[Len(results')] IN
       \A i \in 1..Len(row.mapped_standards) : row.mapped_standards[i].standard \in catalog]_vars

\* a row persisted from the answer <<N1/PC1, N1/PC9>>, whose second pair is in no catalog
C3_Witness ==
  \E i \in 1..Len(results) :
    results[i].mapped_standards = <<[standard |-> Std(RoleDev, "N1", "PC1"), confidence_score |-> 90]>>

\* C4: every mapped standard of a result made with a job_role_filter has a job_role
\* containing the filter, case-insensitively; and the request the mapping page sends
\* carries the selected role as job_role_filter when the selection is not 'all',
\* and no filter when it is.
C4_JobRoleFilter ==
  [][/\ \A i \in 1..Len(results') :
          results'[i].job_role_filter # Null =>
            \A j \in 1..Len(results'[i].mapped_standards) :
              ContainsIgnoreCase(results'[i].mapped_standards[j].standard.job_role,
                                 results'[i].job_role_filter)
     /\ (mapReq.state # "sent" /\ mapReq'.state = "sent") =>
          mapReq'.job_role_filter =
            IF selectedJobRoleFilter = All THEN Null ELSE selectedJobRoleFilter]_vars

\* the page mapped with the filter "Dev" and got the record of the joined role "Qa,Dev"
C4_Witness ==
  /\ mappingResults # NullResult
  /\ mappingResults.job_role_filter = RoleDev
  /\ \E j \in 1..Len(mappingResults.mapped_standards) :
       mappingResults.mapped_standards[j].standard.job_role = RoleQaDev

NoCandidatePersistsEmpty(req, reqNext) ==
  (/\ Served(req, reqNext)
   /\ HasSummary(req.content_id)
   /\ req.job_role_filter # Null
   /\ \A s \in catalog : ~ContainsIgnoreCase(s.job_role, req.job_role_filter))
    => /\ reqNext.state = "ok"
       /\ reqNext.data.mapped_standards = <<>>
       /\ reqNext.data.content_id = req.content_id
       /\ reqNext.data.job_role_filter = req.job_role_filter
       /\ results' = Append(results, reqNext.data)

\* C5: a map-content call whose job_role_filter matches no catalog row succeeds and
\* persists a MappingResult with an empty mapped_standards list.
C5_EmptyCandidatePersisted ==
  [][NoCandidatePersistsEmpty(apiReq, apiReq') /\ NoCandidatePersistsEmpty(mapReq, mapReq')]_vars

\* the call with a filter matching nothing succeeded with an empty list
C5_Witness ==
  /\ apiReq.state = "ok"
  /\ apiReq.job_role_filter = NoMatchFilter
  /\ apiReq.data.mapped_standards = <<>>
  /\ results[Len(results)] = apiReq.data

\* C6: a failed map-content request persists nothing, and when the mapping page
\* has handled the failure its displayed result is null, its error message is set
\* and isMapping is false.
C6_FailureLeavesNoPartialState ==
  [][/\ (Served(mapReq, mapReq') /\ mapReq'.state = "err") => results' = results
     /\ (mapReq.state = "err" /\ mapReq'.state = "none") =>
          /\ mappingResults' = NullResult
          /\ mappingError' # NoError
          /\ ~isMapping']_vars

\* after a successful run, a run on the stored content 2 failed (the LLM) and the
\* page has handled it
C6_Witness ==
  /\ Len(results) = 1
  /\ HasSummary(2)
  /\ selectedContentId = IdToString(2)
  /\ mapReq.state = "none"
  /\ mappingError # NoError
  /\ mappingResults = NullResult
  /\ ~isMapping

\* C7: every successful map-content call adds exactly one MappingResult at the end
\* of the stored results, and no step changes or removes a stored one.
C7_HistoryNotOverwrite ==
  [][/\ Len(results') \in {Len(results), Len(results) + 1}
     /\ \A i \in 1..Len(results) : results'[i] = results[i]
     /\ (Len(results') = Len(results) + 1) <=>
          \/ (Served(apiReq, apiReq') /\ apiReq'.state = "ok")
          \/ (Served(mapReq, mapReq') /\ mapReq'.state = "ok")]_vars

\* two results stored for one content
C7_Witness ==
  /\ Len(results) = 2
  /\ results[1].content_id = results[2].content_id
  /\ results[1].id # results[2].id

\* C9: when the mapping page handles a request rejected for a missing summary, the
\* message it shows differs from the one it shows for an upstream (LLM) failure.
C9_DistinctMissingSummaryMessage ==
  [][(mapReq.state = "err" /\ mapReq'.state = "none" /\ mapReq.kind = "missing_summary") =>
       /\ mappingError' # NoError
       /\ mappingError' # MappingCatchMessage("mapping_error")]_vars

\* a generate-summary request for content `id` is issued in this step
GenerateSummaryIssued(id) ==
  LET t == Task("handleGenerateSummary", id, "sent") IN
  /\ BagIn(t, tasks')
  /\ BagIn(t, tasks) => CopiesIn(t, tasks') > CopiesIn(t, tasks)

\* C10: a generate-summary request is only ever issued for a content that has no
\* summary in the store, so a content that has a summary is never summarized again.
C10_SummarizedOnce ==
  [][\A id \in ContentIds : GenerateSummaryIssued(id) => dbContent[id].summary = 0]_vars

\* the handler calls of `bag` that have a request in flight
Requesting(bag) == {t \in BagToSet(bag) : t.phase \in {"sent", "loading"}}

\* the requests the handler calls issue in this step
IssuedByTasks ==
  LET before(t) == IF BagIn(t, tasks) THEN CopiesIn(t, tasks) ELSE 0
      gained == {t \in Requesting(tasks') : CopiesIn(t, tasks') > before(t)}
      Sum[S \in SUBSET gained] ==
        IF S = {} THEN 0
        ELSE LET t == CHOOSE x \in S : TRUE
             IN CopiesIn(t, tasks') - before(t) + Sum[S \ {t}]
  IN Sum[gained]

\* the requests issued in this step
NumIssued ==
  IssuedByTasks
    + Cardinality(loads' \ loads)
    + (IF mapReq'.state = "sent" /\ mapReq.state # "sent" THEN 1 ELSE 0)

\* a handler goes on after its request was fulfilled, and calls its page's load
ContinuedAfterSuccess ==
  \E t \in BagToSet(tasks) : t.phase = "ok" /\ tasks' = Moved(t, "loading")

\* a handler gets the failure of its request in this step
FailureHandled ==
  \/ \E t \in BagToSet(tasks) : t.phase = "err" /\ tasks' = Ended(t)
  \/ mapReq.state = "err" /\ mapReq' # mapReq

\* a handler is called in this step (handlers are called from the user's clicks,
\* submits and navigation only): a call is added to `tasks`, handleMapping sends
\* its request, or the ?content= parameter changes and loadData runs again
HandlerCalled ==
  \/ BagCardinality(tasks') > BagCardinality(tasks)
  \/ mapReq.state = "none" /\ mapReq'.state = "sent"
  \/ preselectedContentId' # preselectedContentId

\* C8: no request is retried: a step issues at most one request; a request is
\* issued only when the user's action calls a handler, or by a handler whose
\* previous request was fulfilled (the reload after a successful summarize,
\* delete or save); and a step in which a handler gets a failure issues no request.
C8_NoAutomaticRetry ==
  [][/\ NumIssued <= 1
     /\ NumIssued = 1 => (HandlerCalled \/ ContinuedAfterSuccess)
     /\ FailureHandled => NumIssued = 0]_vars

\* a mapping run has failed, the page has shown the error, and no request is in flight
C8_Witness ==
  /\ page = "mapping"
  /\ mappingError # NoError
  /\ ~isMapping
  /\ mapReq = NoRequest
  /\ loads = {}

\* ---- catalog importer ----

\* the line of the most recent row before line i whose leading fields are not
\* blank; 0 when there is none
GroupHead(raw, i) ==
  LET S == {j \in 1..(i - 1) : ~LeadingBlank(raw[j])}
  IN IF S = {} THEN 0 ELSE CHOOSE j \in S : \A k \in S : k <= j

\* what line i of the file stands for: its own fields, the leading three taken
\* from the head of its group when they are blank, all of them trimmed
Resolved(raw, i) ==
  LET h == GroupHead(raw, i)
  IN TrimRow(IF LeadingBlank(raw[i]) /\ h # 0
             THEN Row(raw[h].job_role, raw[h].nos_code, raw[h].nos_name,
                      raw[i].pc_code, raw[i].pc_description)
             ELSE raw[i])

Triple(rec) == <<rec.job_role, rec.nos_code, rec.nos_name>>

NaturalKey(rec) == <<rec.nos_code, rec.pc_code>>

\* lines i < j of the file are exact duplicates after fill and trimming, and not rejected
DuplicateLines(raw, i, j) ==
  /\ i < j
  /\ Resolved(raw, i) = Resolved(raw, j)
  /\ ValidRow(Resolved(raw, i))

\* C11: after an import, every imported row whose leading fields were blank in the
\* file carries the trimmed, non-blank triple of the most recent preceding row
\* whose leading fields are not blank, and every such row that is not rejected is
\* in the catalog with that triple.
C11_ForwardFill ==
  importRun.phase = "done" =>
    LET raw == importRun.raw IN
    /\ \A k \in 1..Len(importRun.inserted) :
         LET i == importRun.inserted[k].line
             rec == importRun.inserted[k].rec
         IN LeadingBlank(raw[i]) =>
              /\ GroupHead(raw, i) # 0
              /\ Triple(rec) = Triple(TrimRow(raw[GroupHead(raw, i)]))
              /\ ~LeadingBlank(rec)
    /\ \A i \in 1..Len(raw) :
         (LeadingBlank(raw[i]) /\ GroupHead(raw, i) # 0 /\ ValidRow(Resolved(raw, i)))
           => Resolved(raw, i) \in catalog

\* an import is done in which a row of the second group, blank in its leading
\* fields, was filled and imported
C11_Witness ==
  /\ importRun.phase = "done"
  /\ \E k \in 1..Len(importRun.inserted) :
       /\ LeadingBlank(importRun.raw[importRun.inserted[k].line])
       /\ GroupHead(importRun.raw, importRun.inserted[k].line) > 1

C13_DestructiveReimport ==
  importRun.phase = "done" =>
    catalog = {Resolved(importRun.raw, i) :
                 i \in {l \in 1..Len(importRun.raw) : ValidRow(Resolved(importRun.raw, l))}}

\* a file was imported over a catalog that held records the file does not hold
C13_Witness ==
  /\ importRun.phase = "done"
  /\ importRun.before \ catalog # {}
  /\ catalog # {}

\* C14: while an import runs, and after one that aborted on its file or was rolled
\* back on a failed write, the catalog is the catalog of before the import.
C14_FailedImportKeepsCatalog ==
  importRun.phase \in {"aborted", "rolled_back", "reading", "open", "inserting"} =>
    catalog = importRun.before

\* an import over a filled catalog was rolled back after it had written rows
C14_Witness ==
  /\ importRun.phase = "rolled_back"
  /\ importRun.written > 0
  /\ importRun.before # {}

---------------------------------------------------------------------------
(* Properties of the client-side export *)

\* the lines of a text: one more than its line breaks
LineCount(text) == Cardinality({i \in 1..Len(text) : text[i] = LF}) + 1

\* a CSV file was handed to the browser
CsvExported == download # NoDownload /\ download.format = "csv"

\* C15: a CSV export of a result with N details has N + 1 lines, the header and a
\* row per detail in list order, with 8 columns each, on every export path.
C15_CsvLinesAndColumns ==
  CsvExported =>
    /\ LineCount(download.text) = Len(download.result.mapped_standards) + 1
    /\ Len(download.rows) = Len(download.result.mapped_standards) + 1
    /\ \A r \in 1..Len(download.rows) : Len(download.rows[r]) = 8
    /\ \A i \in 1..Len(download.result.mapped_standards) :
         LET detail == download.result.mapped_standards[i]
         IN /\ download.rows[i + 1][1] = detail.standard.job_role
            /\ download.rows[i + 1][4] = detail.standard.pc_code

\* C16: in a CSV export every field is between two double quote characters and the
\* quote characters inside a field are written as they are.
C16_FieldsInDoubleQuotes ==
  CsvExported =>
    download.text =
      Join([r \in 1..Len(download.rows) |->
              Join([c \in 1..Len(download.rows[r]) |-> <<DQ>> \o download.rows[r][c] \o <<DQ>>],
                   <<",">>)],
           <<LF>>)

\* C17: whenever the mapping page exports, the file is named mapping_results_,
\* the title of the content the result is about with every character that is
\* neither a letter nor a digit replaced by an underscore, and the extension.
C17_NamedFromContentTitle ==
  download # NoDownload =>
    download.name =
      <<"mapping_results_">>
        \o [i \in 1..Len(ContentTitle[download.content_id]) |->
              IF ContentTitle[download.content_id][i] \in Alphanumerics
              THEN ContentTitle[download.content_id][i] ELSE "_"]
        \o <<IF download.format = "csv" THEN ".csv" ELSE ".pdf">>

\* a document (the PDF of the mapping page, the text file of the content page) was
\* handed to the browser
DocumentExported == download # NoDownload /\ download.format = "pdf"

\* the blocks of an exported document in the order of the specification: the header
\* lines, the details in list order, the overall gap analysis when the result has
\* one, the summary the mapping used
DocumentOrder(result) ==
  <<<<"header.title", 0>>, <<"header.confidence", 0>>, <<"header.count", 0>>,
    <<"header.timestamp", 0>>, <<"header.filter", 0>>>>
    \o [i \in 1..Len(result.mapped_standards) |-> <<"detail", i>>]
    \o (IF result.overall_gap_analysis \in {Undefined, EmptyString} THEN <<>>
        ELSE <<<<"overall_gap", 0>>>>)
    \o <<<<"summary_used", 0>>>>

\* the blocks of the exported document, line by line, the section headings left out
DocumentBlocks ==
  SelectSeq([i \in 1..Len(download.blocks) |->
               <<download.blocks[i].block, download.blocks[i].index>>],
            LAMBDA b : b[1] # "heading")

\* C18: an exported document holds every block of the specified order, and its
\* lines follow that order.
C18_DocumentBlockOrder ==
  DocumentExported =>
    LET order == DocumentOrder(download.result)
        Rank(b) == CHOOSE k \in 1..Len(order) : order[k] = b
    IN /\ {DocumentBlocks[i] : i \in 1..Len(DocumentBlocks)} = {order[k] : k \in 1..Len(order)}
       /\ \A i, j \in 1..Len(DocumentBlocks) :
            i < j => Rank(DocumentBlocks[i]) <= Rank(DocumentBlocks[j])

\* C19: in the PDF no line of a detail is drawn with the cursor beyond 250 and no
\* line of the overall gap analysis with the cursor beyond 280.
C19_NoLineBeyondThreshold ==
  (DocumentExported /\ download.path = "mapping") =>
    \A i \in 1..Len(download.blocks) :
      LET line == download.blocks[i]
      IN /\ line.block = "detail" => line.y <= DetailThreshold
         /\ line.block = "overall_gap" => line.y <= GapLineThreshold

---------------------------------------------------------------------------
(* Properties of the upload page *)

\* a file the validation of handleFileSelect refuses
Refused(file) == file.size > MaxFileSize \/ file.type \notin AllowedTypes

\* this step sends an upload request: handleSubmit reaches its await
UploadRequestSent ==
  \E t \in BagToSet(tasks') :
    /\ t.handler = "upload.handleSubmit"
    /\ t.phase = "sent"
    /\ CopiesIn(t, tasks') > CopiesIn(t, tasks)

\* C20: a file larger than 10MB or of a type other than text/plain, application/pdf
\* and text/markdown is refused with its message and does not become the selected
\* file; the selected file is never such a file, and no upload request is sent
\* while the form holds one.
C20_FileValidation ==
  [][/\ \A file \in FileInputs, readOk \in BOOLEAN :
          (Refused(file) /\ HandleFileSelect(file, readOk)) =>
            /\ uploadError' = IF file.size > MaxFileSize THEN FileTooLarge
                              ELSE FileTypeUnsupported
            /\ formData' = formData
     /\ formData'.file # NoFile => ~Refused(formData'.file)
     /\ UploadRequestSent => (formData.file = NoFile \/ ~Refused(formData.file))]_vars

\* an upload request went out with a file, and a file too large chosen afterwards
\* was refused
C20_Witness ==
  /\ uploadError = FileTooLarge
  /\ formData.file # NoFile
  /\ \E t \in BagToSet(tasks) : t.handler = "upload.handleSubmit" /\ t.phase = "sent"

\* C21: a submit with a title of blanks only, or with neither a file nor manual
\* content other than blanks, sets the message of its validation, sends no
\* request and leaves the form data unchanged.
C21_SubmitValidation ==
  [][UploadHandleSubmit =>
       /\ Trim(formData.title) = EmptyString =>
            uploadError' = TitleMissing /\ tasks' = tasks /\ formData' = formData
                                        /\ isUploading' = isUploading
       /\ (Trim(formData.title) # EmptyString /\ formData.file = NoFile
             /\ Trim(formData.content) = EmptyString) =>
            uploadError' = ContentMissing /\ tasks' = tasks /\ formData' = formData
                                          /\ isUploading' = isUploading]_vars

\* a submit with a title of blanks was refused, the title is still in the form
C21_Witness ==
  /\ uploadError = TitleMissing
  /\ formData.title = <<" ">>
  /\ tasks = NoTasks

\* C30: on the upload page the success indication and an error message are
\* never both set.
C30_SuccessAndErrorExclusive ==
  page = "upload" => (uploadSuccess = NullContent \/ uploadError = NoError)

---------------------------------------------------------------------------
(* Properties of the busy flags and of concurrent handler calls *)

\* a generate-summary request for content id that the page has sent and whose
\* answer its handler has not taken yet
GenerateSummaryPending(t, id) ==
  /\ t.handler = "handleGenerateSummary"
  /\ t.content_id = id
  /\ t.phase \in {"sent", "ok", "err"}

\* C22: while a generate-summary request for a content is pending,
\* isGeneratingSummary is the id of that content, and no second request for the
\* same content is pending.
C22_GenerateSummaryGuarded ==
  \A id \in ContentIds :
    \A t \in BagToSet(tasks) :
      GenerateSummaryPending(t, id) =>
        /\ isGeneratingSummary = id
        /\ CopiesIn(t, tasks) = 1
        /\ \A u \in BagToSet(tasks) : GenerateSummaryPending(u, id) => u = t

\* a loadMappingResults call for content `id` has not settled yet
LoadMappingResultsPending(id) ==
  \E t \in BagToSet(tasks) : IsTask(t, "loadMappingResults", "loading") /\ t.content_id = id

\* C27: loadMappingResults calls for different contents keep each other's
\* updates: an entry of mappingResults is the response to a request for its own
\* id, it changes only when a call for that id settles and is never dropped,
\* and loadingMappingResults is false for an id with no call pending.
C27_LoadsKeepEachOther ==
  [][\A id \in ContentIds :
       /\ id \in DOMAIN mappingResults => mappingResults[id] = ResultsGet(id)
       /\ id \in DOMAIN mappingResults => id \in DOMAIN mappingResults'
       /\ (id \in DOMAIN mappingResults' /\ id \notin DOMAIN mappingResults) =>
            (LoadMappingResultsPending(id) /\ mappingResults'[id] = ResultsGet(id))
       /\ ~LoadMappingResultsPending(id) => id \notin loadingMappingResults
       /\ (id \in loadingMappingResults /\ LoadMappingResultsPending(id)) =>
            (id \in loadingMappingResults' \/ tasks' # tasks)]_vars

\* both contents' calls have settled: each entry holds its own content's rows
C27_Witness ==
  /\ page = "content"
  /\ DOMAIN mappingResults = ContentIds
  /\ \A id \in ContentIds : Len(mappingResults[id]) = 1 /\ mappingResults[id][1].content_id = id
  /\ loadingMappingResults = {}
  /\ BagToSet(tasks) = {}

\* no call of the mounted page is pending
NoCallPending == mapReq = NoRequest /\ loads = {} /\ BagToSet(tasks) = {}

\* every busy flag has its idle value
AllFlagsIdle ==
  /\ ~isMapping
  /\ ~isUploading
  /\ ~isLoading
  /\ isGeneratingSummary = 0
  /\ loadingMappingResults = {}

\* C28: every busy flag set by an async handler is eventually back at its idle
\* value, whether the request succeeds or fails, and none is left set once no
\* call is pending.
C28_BusyFlagsCleared ==
  /\ isMapping ~> ~isMapping
  /\ isUploading ~> ~isUploading
  /\ isLoading ~> ~isLoading
  /\ (isGeneratingSummary # 0) ~> (isGeneratingSummary = 0)
  /\ \A c \in ContentIds : (c \in loadingMappingResults) ~> (c \notin loadingMappingResults)
  /\ [](NoCallPending => AllFlagsIdle)

\* a failed mapping run has settled and left the page idle
C28_Witness ==
  /\ page = "mapping"
  /\ mappingError # NoError
  /\ NoCallPending
  /\ AllFlagsIdle

---------------------------------------------------------------------------
(* Properties of the mapping page *)

\* C23: the content whose title names a file exported by the mapping page is the
\* content the exported result is about.
C23_TitleOfMappedContent ==
  download # NoDownload =>
    download.content = [title |-> ContentTitle[download.content_id]]

\* C25: on the mapping page mappingResults and mappingError are never both set,
\* and while isMapping is true both are null.
C25_ResultsAndErrorExclusive ==
  page = "mapping" =>
    /\ mappingResults = NullResult \/ mappingError = NoError
    /\ isMapping => (mappingResults = NullResult /\ mappingError = NoError)

\* a run failed after an earlier run had shown its result: the message is set
\* and the result is gone
C25_Witness ==
  /\ page = "mapping"
  /\ mappingError # NoError
  /\ mappingResults = NullResult
  /\ ~isMapping
  /\ Len(results) = 1

\* C26: isMapping is true exactly while a map-content request of the page is
\* pending, and a request is sent only when isMapping is false and none is
\* pending, so at most one is in flight.
C26_OneMapRequest ==
  [][/\ page = "mapping" => (isMapping <=> mapReq # NoRequest)
     /\ (mapReq' # mapReq /\ mapReq'.state = "sent") =>
          (~isMapping /\ mapReq = NoRequest /\ isMapping')]_vars

\* a second run's request is pending and the Start button is disabled
C26_Witness ==
  /\ page = "mapping"
  /\ isMapping
  /\ mapReq.state = "sent"
  /\ Len(results) = 1

\* a loadData call of the mapping page settles in this step
LoadDataSettled == page = "mapping" /\ loads' # loads /\ loads' \subseteq loads

\* C29: a loadData call of the mapping page is all-or-nothing: when it settles
\* isLoading becomes false and either contents, settings, jobRoles and
\* selectedContentId all keep their values, or the three lists are all set
\* from the responses of that call.
C29_LoadAllOrNothing ==
  [][LoadDataSettled =>
       /\ ~isLoading'
       /\ \/ /\ contents' = contents
             /\ settings' = settings
             /\ jobRoles' = jobRoles
             /\ selectedContentId' = selectedContentId
          \/ /\ contents' = ContentsWithSummary(ContentGetAll)
             /\ settings' = SettingsGetAll
             /\ jobRoles' = JobRolesGetAll]_vars

\* a reload has failed after the listed content was deleted: the lists of the
\* earlier load are still shown
C29_Witness ==
  /\ page = "mapping"
  /\ loads = {}
  /\ ~isLoading
  /\ contents # {}
  /\ contents # ContentsWithSummary(ContentGetAll)
  /\ settings = {1}
  /\ jobRoles # {}

---------------------------------------------------------------------------
(* Properties of the settings page *)

\* C24: on the settings page editingId is null (0) or the id of a setting of the
\* loaded list, and no update request is sent for a setting that is not in it.
C24_EditingIdListed ==
  page = "settings" =>
    /\ editingId = 0 \/ editingId \in settings
    /\ \A t \in BagToSet(tasks) :
         (t.handler = "settings.handleSubmit" /\ t.phase = "sent" /\ t.content_id # 0) =>
           t.content_id \in settings

====
